---------------------------- MODULE Spec2Model ----------------------------
(***************************************************************************)
(* Webhook dispatch engine of Jellystat                                    *)
(* (backend/classes/webhook-manager.js, class WebhookManager).             *)
(*                                                                         *)
(* JavaScript strings are sequences of one-character strings, so that      *)
(* String.includes, the placeholder regular expression, trim and split     *)
(* are computed character by character.  JavaScript values are tagged      *)
(* records.  Every action is one run-to-completion segment of the event    *)
(* loop: the code between two awaits of one async function, together with  *)
(* the synchronous calls it makes.                                         *)
(*                                                                         *)
(* Spec is the manager at work: publications, dispatches, the monthly      *)
(* report and the methods of the manager called one by one, in any of      *)
(* four time zones.  SpecCompile calls compileTemplate on a range of       *)
(* templates and data trees, SpecRegistry calls getScheduledWebhooks on    *)
(* every content of the enabled column, SpecCycles runs overlapping        *)
(* dispatch cycles of one event (SpecCyclesFair: with every awaited answer *)
(* arriving), SpecBus counts repeated constructions of the manager,        *)
(* SpecPeriod computes the windows of the queries of the monthly report on *)
(* every current date, each query reading the date anew.                   *)
(***************************************************************************)
EXTENDS Integers, Sequences, FiniteSets

(***************************************************************************)
(* String literals                                                         *)
(***************************************************************************)
\* "discord.com/api/webhooks"
DiscordMarker == <<"d", "i", "s", "c", "o", "r", "d", ".", "c", "o", "m", "/", "a", "p", "i", "/", "w", "e", "b", "h", "o", "o", "k", "s">>
\* "Content-Type"
ContentTypeKey == <<"C", "o", "n", "t", "e", "n", "t", "-", "T", "y", "p", "e">>
\* "application/json"
ApplicationJson == <<"a", "p", "p", "l", "i", "c", "a", "t", "i", "o", "n", "/", "j", "s", "o", "n">>
\* "playback_started"
PlaybackStarted == <<"p", "l", "a", "y", "b", "a", "c", "k", "_", "s", "t", "a", "r", "t", "e", "d">>
\* "playback_ended"
PlaybackEnded == <<"p", "l", "a", "y", "b", "a", "c", "k", "_", "e", "n", "d", "e", "d">>
\* "media_recently_added"
MediaRecentlyAdded == <<"m", "e", "d", "i", "a", "_", "r", "e", "c", "e", "n", "t", "l", "y", "_", "a", "d", "d", "e", "d">>
\* "library_scan"
UnknownEvent == <<"l", "i", "b", "r", "a", "r", "y", "_", "s", "c", "a", "n">>
\* "event"
K_event == <<"e", "v", "e", "n", "t">>
\* "triggeredAt"
K_triggeredAt == <<"t", "r", "i", "g", "g", "e", "r", "e", "d", "A", "t">>
\* "length"
K_length == <<"l", "e", "n", "g", "t", "h">>
\* "user"
K_user == <<"u", "s", "e", "r">>
\* "content"
K_content == <<"c", "o", "n", "t", "e", "n", "t">>
\* "userName"
K_userName == <<"u", "s", "e", "r", "N", "a", "m", "e">>
\* "data"
K_data == <<"d", "a", "t", "a">>
\* "X-Token"
K_XToken == <<"X", "-", "T", "o", "k", "e", "n">>
\* "alice"
S_alice == <<"a", "l", "i", "c", "e">>
\* "hi"
S_hi == <<"h", "i">>
\* "secret"
S_secret == <<"s", "e", "c", "r", "e", "t">>
\* "POST"
S_POST == <<"P", "O", "S", "T">>
\* "PUT"
S_PUT == <<"P", "U", "T">>
\* "true"
S_true == <<"t", "r", "u", "e">>
\* "false"
S_false == <<"f", "a", "l", "s", "e">>
\* "null"
S_null == <<"n", "u", "l", "l">>
\* "[object Object]"
S_objectObject == <<"[", "o", "b", "j", "e", "c", "t", " ", "O", "b", "j", "e", "c", "t", "]">>
\* "{{data.userName}}"
T_dataUserName == <<"{", "{", "d", "a", "t", "a", ".", "u", "s", "e", "r", "N", "a", "m", "e", "}", "}">>
\* "{{userName}}"
T_userName == <<"{", "{", "u", "s", "e", "r", "N", "a", "m", "e", "}", "}">>
\* "{{ userName }}@{{event}}"
T_helloUserEvent == <<"{", "{", " ", "u", "s", "e", "r", "N", "a", "m", "e", " ", "}", "}", "@", "{", "{", "e", "v", "e", "n", "t", "}", "}">>
\* "{{event}}"
T_event == <<"{", "{", "e", "v", "e", "n", "t", "}", "}">>
\* " minutes U+2022 "
S_minutesSep == <<" ", "m", "i", "n", "u", "t", "e", "s", " ", "U+2022", " ">>
\* " viewers"
S_viewers == <<" ", "v", "i", "e", "w", "e", "r", "s">>
\* "No data"
S_NoData == <<"N", "o", " ", "d", "a", "t", "a">>
\* "No movies watch this month"
S_NoMovies == <<"N", "o", " ", "m", "o", "v", "i", "e", "s", " ", "w", "a", "t", "c", "h", " ", "t", "h", "i", "s", " ", "m", "o", "n", "t", "h">>
\* "No Series watch this month"
S_NoSeries == <<"N", "o", " ", "S", "e", "r", "i", "e", "s", " ", "w", "a", "t", "c", "h", " ", "t", "h", "i", "s", " ", "m", "o", "n", "t", "h">>
\* "U+1F3AC Most Watched Movies"
S_MoviesTitle == <<"U+1F3AC", " ", "M", "o", "s", "t", " ", "W", "a", "t", "c", "h", "e", "d", " ", "M", "o", "v", "i", "e", "s">>
\* "U+1F4FA Most Watched Series"
S_SeriesTitle == <<"U+1F4FA", " ", "M", "o", "s", "t", " ", "W", "a", "t", "c", "h", "e", "d", " ", "S", "e", "r", "i", "e", "s">>
\* "U+1F4C8 General Statistics"
S_StatsTitle == <<"U+1F4C8", " ", "G", "e", "n", "e", "r", "a", "l", " ", "S", "t", "a", "t", "i", "s", "t", "i", "c", "s">>
\* "Active Users"
S_ActiveUsers == <<"A", "c", "t", "i", "v", "e", " ", "U", "s", "e", "r", "s">>
\* "Total Plays"
S_TotalPlays == <<"T", "o", "t", "a", "l", " ", "P", "l", "a", "y", "s">>
\* "Total Hours Watched"
S_TotalHours == <<"T", "o", "t", "a", "l", " ", "H", "o", "u", "r", "s", " ", "W", "a", "t", "c", "h", "e", "d">>
\* "title"
K_title == <<"t", "i", "t", "l", "e">>
\* "color"
K_color == <<"c", "o", "l", "o", "r">>
\* "fields"
K_fields == <<"f", "i", "e", "l", "d", "s">>
\* "name"
K_name == <<"n", "a", "m", "e">>
\* "value"
K_value == <<"v", "a", "l", "u", "e">>
\* "inline"
K_inline == <<"i", "n", "l", "i", "n", "e">>
\* "embeds"
K_embeds == <<"e", "m", "b", "e", "d", "s">>
\* "http://hooks.test/in"
UrlGeneric == <<"h", "t", "t", "p", ":", "/", "/", "h", "o", "o", "k", "s", ".", "t", "e", "s", "t", "/", "i", "n">>
\* "https://discord.com/api/webhooks/7"
UrlDiscord == <<"h", "t", "t", "p", "s", ":", "/", "/", "d", "i", "s", "c", "o", "r", "d", ".", "c", "o", "m", "/", "a", "p", "i", "/", "w", "e", "b", "h", "o", "o", "k", "s", "/", "7">>

(***************************************************************************)
(* JavaScript values                                                       *)
(***************************************************************************)
Str(s) == [t |-> "str", s |-> s]
Num(n) == [t |-> "num", n |-> n]
Bool(b) == [t |-> "bool", b |-> b]
Obj(f) == [t |-> "obj", o |-> f]
Arr(a) == [t |-> "arr", a |-> a]
Null == [t |-> "null"]
Undefined == [t |-> "undefined"]
\* an exception thrown by the evaluation (TypeError, SyntaxError, ...)
Thrown == [t |-> "throw"]

EmptyObj == Obj(<<>>)

\* { k: v }
Obj1(k, v) == Obj([x \in {k} |-> v])

\* { k1: v1, k2: v2 }
Obj2(k1, v1, k2, v2) == Obj([x \in {k1, k2} |-> IF x = k1 THEN v1 ELSE v2])

\* { ...obj, k: v }
Spread(obj, k, v) ==
    Obj([x \in (DOMAIN obj.o) \cup {k} |-> IF x = k THEN v ELSE obj.o[x]])

Digit(n) == <<"0", "1", "2", "3", "4", "5", "6", "7", "8", "9">>[n + 1]

RECURSIVE Decimal(_)
\* decimal text of a natural number
Decimal(n) == IF n < 10 THEN <<Digit(n)>> ELSE Decimal(n \div 10) \o <<Digit(n % 10)>>

RECURSIVE StringOf(_)
RECURSIVE JoinComma(_)
\* Array.prototype.join(','): null and undefined elements give the empty text
JoinComma(a) ==
    IF a = <<>> THEN <<>>
    ELSE (IF Head(a).t \in {"null", "undefined"} THEN <<>> ELSE StringOf(Head(a)))
         \o (IF Len(a) > 1 THEN <<",">> \o JoinComma(Tail(a)) ELSE <<>>)

\* String(value), the conversion String.prototype.replace applies to the
\* value its callback returns
StringOf(v) ==
    CASE v.t = "str" -> v.s
      [] v.t = "num" -> Decimal(v.n)
      [] v.t = "bool" -> IF v.b THEN S_true ELSE S_false
      [] v.t = "null" -> S_null
      [] v.t = "obj" -> S_objectObject
      [] v.t = "arr" -> JoinComma(v.a)

\* the index an array key names, 0 when the key is no index of a
IndexOf(a, key) ==
    IF \E i \in DOMAIN a : Decimal(i - 1) = key
    THEN CHOOSE i \in DOMAIN a : Decimal(i - 1) = key
    ELSE 0

\* value[key]: an own property of an object, an element or the length of
\* an array or a string, undefined on any other scalar, a TypeError on null
\* (no key of the model names an inherited member such as constructor)
GetProp(v, key) ==
    CASE v.t = "obj" -> IF key \in DOMAIN v.o THEN v.o[key] ELSE Undefined
      [] v.t = "str" -> IF key = K_length THEN Num(Len(v.s))
                        ELSE IF IndexOf(v.s, key) # 0 THEN Str(<<v.s[IndexOf(v.s, key)]>>)
                        ELSE Undefined
      [] v.t = "arr" -> IF key = K_length THEN Num(Len(v.a))
                        ELSE IF IndexOf(v.a, key) # 0 THEN v.a[IndexOf(v.a, key)]
                        ELSE Undefined
      [] v.t = "null" -> Thrown
      [] OTHER -> Undefined

(***************************************************************************)
(* compileTemplate                                                         *)
(***************************************************************************)
RECURSIVE NonBraceRun(_, _)
\* [^}]+ : the number of characters other than "}" from position j on
NonBraceRun(s, j) ==
    IF j > Len(s) \/ s[j] = "}" THEN 0 ELSE 1 + NonBraceRun(s, j + 1)

\* /\{\{([^}]+)\}\}/ anchored at position i: the length of the match, 0 for
\* no match
MatchLen(s, i) ==
    IF i + 1 <= Len(s) /\ s[i] = "{" /\ s[i + 1] = "{"
    THEN LET r == NonBraceRun(s, i + 2)
         IN  IF /\ r >= 1
                /\ i + 3 + r <= Len(s)
                /\ s[i + 2 + r] = "}"
                /\ s[i + 3 + r] = "}"
             THEN r + 4 ELSE 0
    ELSE 0

\* the characters String.prototype.trim removes: WhiteSpace and
\* LineTerminator of ECMAScript (tab, line feed, vertical tab, form feed,
\* carriage return, space, no-break space, the space separators of Unicode,
\* line and paragraph separator, byte order mark), a character beyond
\* Latin-1 being written by its code point as elsewhere in this module
IsSpace(c) ==
    c \in {
      " ", "\t", "\n", "\r", "\f", "", " ", "U+0009", "U+000A", "U+000B",
      "U+000C", "U+000D", "U+00A0", "U+1680", "U+2000", "U+2001", "U+2002",
      "U+2003", "U+2004", "U+2005", "U+2006", "U+2007", "U+2008", "U+2009",
      "U+200A", "U+2028", "U+2029", "U+202F", "U+205F", "U+3000", "U+FEFF" }

RECURSIVE TrimLeft(_)
TrimLeft(s) == IF s # <<>> /\ IsSpace(Head(s)) THEN TrimLeft(Tail(s)) ELSE s

RECURSIVE TrimRight(_)
TrimRight(s) ==
    IF s # <<>> /\ IsSpace(s[Len(s)]) THEN TrimRight(SubSeq(s, 1, Len(s) - 1)) ELSE s

\* path.trim()
Trim(s) == TrimRight(TrimLeft(s))

RECURSIVE SplitDot(_, _)
\* path.split('.'), cur being the segment under construction
SplitDot(s, cur) ==
    IF s = <<>> THEN <<cur>>
    ELSE IF Head(s) = "." THEN <<cur>> \o SplitDot(Tail(s), <<>>)
    ELSE SplitDot(Tail(s), Append(cur, Head(s)))

RECURSIVE Walk(_, _, _)
\* the loop over keys (lines 152-155) and the final choice (line 157):
\* the text that replaces the match, or Thrown
Walk(keys, value, match) ==
    IF keys = <<>>
    THEN IF value # Undefined THEN Str(StringOf(value)) ELSE Str(match)
    ELSE IF value = Undefined THEN Str(match)
    ELSE LET next == GetProp(value, Head(keys))
         IN  IF next = Thrown THEN Thrown ELSE Walk(Tail(keys), next, match)

\* Resolve with the event data under a "data" key of the root
ResolveUnderData(match, path, data) ==
    Walk(SplitDot(Trim(path), <<>>), Obj1(K_data, data), match)

\* Resolve resolving again a value that is itself a placeholder
ResolveRescanning(match, path, data) ==
    LET r == Walk(SplitDot(Trim(path), <<>>), data, match)
    IN  IF r = Thrown THEN Thrown
        ELSE IF r.s # match /\ Len(r.s) > 4 /\ MatchLen(r.s, 1) = Len(r.s)
        THEN Walk(SplitDot(Trim(SubSeq(r.s, 3, Len(r.s) - 2)), <<>>), data, r.s)
        ELSE r

\* the replace callback (match, path) => ...
Resolve(match, path, data) == Walk(SplitDot(Trim(path), <<>>), data, match)

RECURSIVE ReplaceFrom(_, _, _)
\* template.replace(/\{\{([^}]+)\}\}/g, callback) from position i on
ReplaceFrom(s, i, data) ==
    IF i > Len(s) THEN Str(<<>>)
    ELSE LET m == MatchLen(s, i)
         IN  IF m = 0
             THEN LET rest == ReplaceFrom(s, i + 1, data)
                  IN  IF rest = Thrown THEN Thrown ELSE Str(<<s[i]>> \o rest.s)
             ELSE LET r == Resolve(SubSeq(s, i, i + m - 1),
                                   SubSeq(s, i + 2, i + m - 3), data)
                      rest == ReplaceFrom(s, i + m, data)
                  IN  IF r = Thrown \/ rest = Thrown THEN Thrown
                      ELSE Str(r.s \o rest.s)

RECURSIVE compileTemplate(_, _)
compileTemplate(template, data) ==
    CASE template.t = "obj" ->
            LET c == [k \in DOMAIN template.o |-> compileTemplate(template.o[k], data)]
            IN  IF \E k \in DOMAIN c : c[k] = Thrown THEN Thrown ELSE Obj(c)
      [] template.t = "arr" ->
            LET c == [k \in {Decimal(i - 1) : i \in DOMAIN template.a} |->
                        compileTemplate(template.a[IndexOf(template.a, k)], data)]
            IN  IF \E k \in DOMAIN c : c[k] = Thrown THEN Thrown ELSE Obj(c)
      [] template.t = "null" -> Thrown
      [] template.t = "str" -> ReplaceFrom(template.s, 1, data)
      [] OTHER -> template

(***************************************************************************)
(* The webhooks table and the JSON texts its columns hold                  *)
(***************************************************************************)
\* a text column (typeof value === 'string')
Text(x) == [t |-> "text", x |-> x]

\* JSON.parse on the texts the table holds
JSONParse(x) ==
    CASE x = "{}" -> EmptyObj
      [] x = "{\"X-Token\":\"secret\"}" -> Obj1(K_XToken, Str(S_secret))
      [] x = "{\"user\":\"{{data.userName}}\"}" -> Obj1(K_user, Str(T_dataUserName))
      [] x = "{\"user\":" -> Thrown

\* the rows of the webhooks table; enabled and last_triggered are the
\* columns that change and are kept in the variables of the same names
Webhooks ==
    << [id |-> 1, url |-> UrlGeneric, method |-> Null,
        headers |-> Text("{\"X-Token\":\"secret\"}"),
        payload |-> Text("{\"user\":\"{{data.userName}}\"}"),
        trigger_type |-> "event", event_type |-> PlaybackStarted],
       [id |-> 2, url |-> UrlDiscord, method |-> Str(S_PUT),
        headers |-> Obj1(K_XToken, Str(S_secret)),
        payload |-> Obj2(K_content, Str(S_hi), K_user, Str(T_userName)),
        trigger_type |-> "event", event_type |-> PlaybackStarted],
       [id |-> 3, url |-> UrlGeneric, method |-> Null,
        headers |-> Text(""),
        payload |-> Text("{\"user\":"),
        trigger_type |-> "event", event_type |-> PlaybackStarted],
       [id |-> 4, url |-> UrlDiscord, method |-> Null,
        headers |-> Null,
        payload |-> Null,
        trigger_type |-> "scheduled", event_type |-> <<>>],
       [id |-> 5, url |-> UrlGeneric, method |-> Null,
        headers |-> Null,
        payload |-> Obj1(K_user, Str(T_helloUserEvent)),
        trigger_type |-> "event", event_type |-> PlaybackEnded],
       [id |-> 6, url |-> UrlGeneric, method |-> Null,
        headers |-> Null,
        payload |-> Null,
        trigger_type |-> "scheduled", event_type |-> <<>>],
       [id |-> 7, url |-> UrlDiscord, method |-> Null,
        headers |-> Text("{\"user\":"),
        payload |-> Obj1(K_content, Str(S_hi)),
        trigger_type |-> "event", event_type |-> PlaybackEnded] >>

WebhookIds == DOMAIN Webhooks

\* the enabled column as the table is created
InitiallyEnabled == [w \in WebhookIds |-> TRUE]

\* the rows whose enabled column the admin surface edits
ToggleRows == {2}

\* the event names the constructor wires a handler to
KnownEvents == {PlaybackStarted, PlaybackEnded, MediaRecentlyAdded}

\* the event names published
EventNames == KnownEvents \cup {UnknownEvent}

\* the data trees published
DataChoices ==
    { Obj1(K_userName, Str(S_alice)),
      Obj1(K_data, Obj1(K_userName, Str(S_alice))),
      Obj1(K_data, Null) }

\* the ids given to triggerMonthlySummaryWebhook: a scheduled row, an event
\* row and an id the table does not hold
SummaryIds == {4, 2, 9}

\* the rows a top-content query answers
ContentRows ==
    { <<>>,
      << [title |-> S_hi, unique_viewers |-> 2, total_minutes |-> 90] >> }

\* the rows the statistics query answers
StatsRows ==
    { <<>>,
      << [active_users |-> 3, total_plays |-> 7, total_hours |-> 12] >> }

(***************************************************************************)
(* Bounds                                                                  *)
(***************************************************************************)
\* calls of the methods of the manager
MaxCalls == 1

(***************************************************************************)
(* State                                                                   *)
(***************************************************************************)
VARIABLES
    instance,       \* WebhookManager.instance is set
    listeners,      \* eventEmitter: event name -> number of handlers
    enabled,        \* webhooks.enabled, by id
    lastTriggered,  \* webhooks.last_triggered, by id; 0 is NULL
    clock,          \* the instant Date and NOW() read next
    ncalls,         \* calls of the methods of the manager so far
    emits,          \* per emitEvent call: the name and the invocations it started
    inv,            \* the invocations of triggerEventWebhooks,
                    \* triggerMonthlySummaryWebhook, and of executeWebhook,
                    \* executeDiscordWebhook and triggerEvent called on the
                    \* manager, in the order they started
    calls,          \* the axios requests issued
    updates,        \* the UPDATE ... SET last_triggered statements executed
    zone,           \* the time zone of the process (TZ)
    pure            \* a direct call of compileTemplate or of a registry
                    \* query: its arguments and the value it returned

vars == <<instance, listeners, enabled, lastTriggered, clock, ncalls,
          emits, inv, calls, updates, zone, pure>>

\* no direct call is under way
NoCall == [pc |-> "idle"]

RetPending == "pending"
RetTrue == "true"
RetFalse == "false"
RetUndefined == "undefined"
\* the promise of the async function rejected
RetThrown == "thrown"

(***************************************************************************)
(* String.prototype.includes                                               *)
(***************************************************************************)
Includes(s, sub) ==
    \E i \in 1..(Len(s) + 1) :
        /\ i + Len(sub) - 1 <= Len(s)
        /\ SubSeq(s, i, i + Len(sub) - 1) = sub

(***************************************************************************)
(* Registry queries                                                        *)
(***************************************************************************)

RECURSIVE Orderings(_)
\* the answers a SELECT without ORDER BY may give for the rows S it
\* selects: the rows once each, in any order (the statements of lines 35,
\* 42 and 300 leave the order to the engine)
Orderings(S) ==
    IF S = {} THEN {<<>>}
    ELSE UNION {{<<x>> \o rest : rest \in Orderings(S \ {x})} : x \in S}

\* getWebhooksByEventType without the conditions on trigger_type and
\* event_type
getWebhooksEnabled(eventType) == Orderings({w \in WebhookIds : enabled[w]})

\* getWebhooksByEventType without the enabled = true condition
getWebhooksByEventTypeAny(eventType) ==
    Orderings({w \in WebhookIds : /\ Webhooks[w].trigger_type = "event"
                                  /\ Webhooks[w].event_type = eventType})

\* SELECT * FROM webhooks WHERE trigger_type = 'event' AND event_type = $2
\*   AND enabled = true
\* (a row is named by its id: no operation edits its other columns)
getWebhooksByEventType(eventType) ==
    Orderings({w \in WebhookIds : /\ Webhooks[w].trigger_type = "event"
                                  /\ Webhooks[w].event_type = eventType
                                  /\ enabled[w]})

\* getScheduledWebhooks without the enabled = true condition
getScheduledWebhooksAny ==
    Orderings({w \in WebhookIds : Webhooks[w].trigger_type = "scheduled"})

\* SELECT * FROM webhooks WHERE trigger_type = 'scheduled' AND enabled = true
getScheduledWebhooks ==
    Orderings({w \in WebhookIds : /\ Webhooks[w].trigger_type = "scheduled"
                                  /\ enabled[w]})

\* getWebhookById without the enabled = true condition
getWebhookByIdAny(webhookId) == Orderings({w \in WebhookIds : w = webhookId})

\* SELECT * FROM webhooks WHERE id = $1 AND enabled = true
getWebhookById(webhookId) ==
    Orderings({w \in WebhookIds : w = webhookId /\ enabled[w]})

(***************************************************************************)
(* executeWebhook                                                          *)
(***************************************************************************)
\* the timeout of every request, in ms
RequestTimeout == 10000

\* the value is falsy: undefined, null, false, 0 and the empty text
Falsy(v) ==
    \/ v.t \in {"null", "undefined"}
    \/ (v.t = "bool" /\ ~v.b)
    \/ (v.t = "num" /\ v.n = 0)
    \/ (v.t = "str" /\ v.s = <<>>)

\* ParseColumn taking a text that is not JSON for an empty object
ParseColumnLenient(col) ==
    CASE col.t = "text" ->
            LET v == JSONParse(IF col.x = "" THEN "{}" ELSE col.x)
            IN  IF v = Thrown THEN EmptyObj ELSE v
      [] Falsy(col) -> EmptyObj
      [] OTHER -> col

\* typeof col === 'string' ? JSON.parse(col || '{}') : (col || {})
ParseColumn(col) ==
    CASE col.t = "text" -> JSONParse(IF col.x = "" THEN "{}" ELSE col.x)
      [] Falsy(col) -> EmptyObj
      [] OTHER -> col

isDiscordWebhook(webhook) == Includes(webhook.url, DiscordMarker)

\* webhook.method || 'POST': the method column when it is truthy, a text
\* in every row that has one
MethodOf(webhook) == IF Falsy(webhook.method) THEN S_POST ELSE webhook.method.s

\* the argument of axios(...)
Request(webhook, headers, data) ==
    [method |-> MethodOf(webhook), url |-> webhook.url, headers |-> headers,
     data |-> data, timeout |-> RequestTimeout]

\* { 'Content-Type': 'application/json' }
JsonHeaders == Obj1(ContentTypeKey, Str(ApplicationJson))

\* BodyOf compiling the payload on both paths
BodyOfCompiled(webhook, payload, data) == compileTemplate(payload, data)

\* the body executeWebhook sends: the parsed payload on the Discord path,
\* the compiled payload otherwise
BodyOf(webhook, payload, data) ==
    IF isDiscordWebhook(webhook) THEN payload ELSE compileTemplate(payload, data)

\* the headers executeWebhook sends
HeadersOf(webhook, headers) ==
    IF isDiscordWebhook(webhook) THEN JsonHeaders ELSE headers

\* a promise of executeWebhook and what the code has seen of its request:
\* tries counts the calls of axios it has made
Delivery(wid, st, p, value) ==
    [wid |-> wid, st |-> st, p |-> p, value |-> value,
     resp |-> "none", upd |-> "none", tries |-> 0]

\* the promise awaiting the one axios call of executeWebhook (line 100 on
\* the Discord path, line 113 otherwise)
AwaitingAxios(wid) == [Delivery(wid, "http", "pending", FALSE) EXCEPT !.tries = 1]

\* ParseFailed returning true
ParseFailedAsSuccess(wid) == Delivery(wid, "done", "fulfilled", TRUE)

\* ParseFailed without the inner catch and without the outer one: the
\* promise of executeWebhook rejects with the SyntaxError
ParseFailedThrows(wid) == Delivery(wid, "done", "rejected", FALSE)

\* the inner catch (lines 92-95): return false
ParseFailed(wid) == Delivery(wid, "done", "fulfilled", FALSE)

\* CatchAll without the catch: the promise of executeWebhook rejects
CatchAllRethrow(d) == [d EXCEPT !.st = "done", !.p = "rejected", !.value = FALSE]

\* CatchAll never returning: the promise of executeWebhook stays pending
CatchAllNeverSettles(d) == [d EXCEPT !.st = "lost"]

\* CatchAll calling axios a second time when the request failed
CatchAllRetry(d) ==
    IF d.resp \in {"non2xx", "transport"} /\ d.tries < 2
    THEN [d EXCEPT !.st = "http", !.resp = "none", !.tries = @ + 1]
    ELSE [d EXCEPT !.st = "done", !.p = "fulfilled", !.value = FALSE]

\* CatchAll taking a response of any status for a delivery
CatchAllStatusOk(d) ==
    [d EXCEPT !.st = "done", !.p = "fulfilled", !.value = (d.resp = "non2xx")]

\* the outer catch (lines 130-137): return false
CatchAll(d) == [d EXCEPT !.st = "done", !.p = "fulfilled", !.value = FALSE]

\* return true (line 129)
ReturnTrue(d) == [d EXCEPT !.st = "done", !.p = "fulfilled", !.value = TRUE]

\* AxiosResolves with validateStatus accepting every status
AxiosResolvesAnyStatus(resp) == resp \in {"2xx", "non2xx"}

\* axios resolves on a 2xx status and rejects on any other status
\* (error.response is set, lines 132-135) and when no response came
AxiosResolves(resp) == resp = "2xx"

Responses == {"2xx", "non2xx", "transport"}

\* executeWebhook up to its first await: the request to issue, if any, and
\* the state of the promise
ExecuteStart(webhook, data) ==
    LET headers == ParseColumn(webhook.headers)
        payload == ParseColumn(webhook.payload)
    IN  IF headers = Thrown \/ payload = Thrown
        THEN [issue |-> FALSE, d |-> ParseFailed(webhook.id)]
        ELSE LET body == BodyOf(webhook, payload, data)
             IN  IF body = Thrown
                 THEN [issue |-> FALSE,
                       d |-> CatchAll(Delivery(webhook.id, "http", "pending", FALSE))]
                 ELSE [issue |-> TRUE,
                       req |-> Request(webhook, HeadersOf(webhook, headers), body),
                       d |-> AwaitingAxios(webhook.id)]

\* RecordDelivery without the WHERE clause: every row is stamped
RecordDeliveryAll(lt, wid, c) == [w \in DOMAIN lt |-> c]

\* UPDATE webhooks SET last_triggered = NOW() WHERE id = $1 (lines 124-127
\* and 376-379): the last_triggered column after it
RecordDelivery(lt, wid, c) == [lt EXCEPT ![wid] = c]

(***************************************************************************)
(* triggerEventWebhooks                                                    *)
(***************************************************************************)
\* new Date().toISOString(), c being the instant read in milliseconds
\* since the epoch: the 24 characters YYYY-MM-DDTHH:mm:ss.sssZ in UTC (the
\* instants the integers of the model reach lie in January 1970)
IsoString(c) ==
    LET two(n) == IF n < 10 THEN <<"0">> \o Decimal(n) ELSE Decimal(n)
        three(n) == IF n < 100 THEN <<"0">> \o two(n) ELSE Decimal(n)
        day == c \div 86400000 + 1
        ofDay == c % 86400000
    IN  <<"1", "9", "7", "0", "-", "0", "1", "-">> \o two(day) \o <<"T">>
            \o two(ofDay \div 3600000) \o <<":">>
            \o two((ofDay \div 60000) % 60) \o <<":">>
            \o two((ofDay \div 1000) % 60) \o <<".">>
            \o three(ofDay % 1000) \o <<"Z">>

\* { ...data, event: eventType, triggeredAt: new Date().toISOString() }
EnrichedData(data, eventType, c) ==
    Spread(Spread(data, K_event, Str(eventType)), K_triggeredAt, Str(IsoString(c)))

\* Launched with an await inside the loop: only the first row is called
\* before the first await
LaunchedFirst(rows) == {1}

\* the rows whose executeWebhook is called before the first await of
\* Promise.all: webhooks.map calls it on every row
Launched(rows) == DOMAIN rows

\* the state of Promise.all(promises)
PromiseAll(ds) ==
    IF \E i \in DOMAIN ds : ds[i].p = "rejected" THEN "rejected"
    ELSE IF \A i \in DOMAIN ds : ds[i].p = "fulfilled" THEN "fulfilled"
    ELSE "pending"

\* NoWebhooksResult returning false
NoWebhooksFailure == RetFalse

\* the value returned when no webhook matches (line 53)
NoWebhooksResult == RetUndefined

\* AfterJoin returning whether every delivery succeeded
AfterJoinAllOk(r, ds) ==
    LET s == PromiseAll(ds)
    IN  IF r.pc # "join" THEN [r EXCEPT !.deliv = ds]
        ELSE IF s = "fulfilled"
        THEN [r EXCEPT !.deliv = ds, !.pc = "returned",
                       !.result = IF \A k \in DOMAIN ds : ds[k].value
                                  THEN RetTrue ELSE RetFalse]
        ELSE IF s = "rejected"
        THEN [r EXCEPT !.deliv = ds, !.pc = "returned", !.result = RetFalse]
        ELSE [r EXCEPT !.deliv = ds]

\* AfterJoin giving up the pending deliveries once a request has failed
\* without a response
AfterJoinAborting(r, ds) ==
    LET cut == [k \in DOMAIN ds |->
                  IF ds[k].p = "pending" THEN CatchAll(ds[k]) ELSE ds[k]]
    IN  IF r.pc # "join" THEN [r EXCEPT !.deliv = ds]
        ELSE IF \E k \in DOMAIN ds : ds[k].resp = "transport"
        THEN [r EXCEPT !.deliv = cut, !.pc = "returned", !.result = RetTrue]
        ELSE IF PromiseAll(ds) = "fulfilled"
        THEN [r EXCEPT !.deliv = ds, !.pc = "returned", !.result = RetTrue]
        ELSE [r EXCEPT !.deliv = ds]

\* the invocation after await Promise.all(promises), ds being the promises
AfterJoin(r, ds) ==
    LET s == PromiseAll(ds)
    IN  IF r.pc # "join" THEN [r EXCEPT !.deliv = ds]
        ELSE IF s = "fulfilled"
        THEN [r EXCEPT !.deliv = ds, !.pc = "returned", !.result = RetTrue]
        ELSE IF s = "rejected"
        THEN [r EXCEPT !.deliv = ds, !.pc = "returned", !.result = RetFalse]
        ELSE [r EXCEPT !.deliv = ds]

\* the invocation after a promise of executeWebhook has changed: the
\* Promise.all of triggerEventWebhooks, or the caller of executeWebhook
\* itself, who gets the value of the one promise
Resume(r, ds) ==
    IF r.op # "execute" THEN AfterJoin(r, ds)
    ELSE IF ds[1].st # "done" \/ ds[1].p = "pending" THEN [r EXCEPT !.deliv = ds]
    ELSE [r EXCEPT !.deliv = ds, !.pc = "returned",
                   !.result = IF ds[1].p = "rejected" THEN RetThrown
                              ELSE IF ds[1].value THEN RetTrue ELSE RetFalse]

\* RegistryFailed without the catch: the rejection of the query reaches the
\* caller of triggerEventWebhooks
RegistryFailedUncaught(r) ==
    [r EXCEPT !.pc = "returned", !.result = RetThrown, !.failed = {"registry"}]

\* the registry query rejected: the catch (lines 71-74) returns false
RegistryFailed(r) ==
    [r EXCEPT !.pc = "returned", !.result = RetFalse, !.failed = {"registry"}]

\* a new invocation record
Invocation(op, eventType, data, webhookId, emit) ==
    [op |-> op, eventType |-> eventType, data |-> data, webhookId |-> webhookId,
     emit |-> emit, pc |-> "query", rows |-> <<>>, seen |-> [w \in WebhookIds |-> FALSE],
     enriched |-> Null, deliv |-> <<>>, result |-> RetPending,
     topMovies |-> <<>>, topSeries |-> <<>>, period |-> <<>>, stats |-> <<>>,
     asked |-> {}, failed |-> {}]

\* HandlerStart with emit returning only when the dispatch has returned
HandlerStartBlocking(eventType, data, emit) ==
    [Invocation("event", eventType, data, 0, emit) EXCEPT
        !.pc = "returned", !.result = RetUndefined]

\* a handler of setupEventListeners as emit leaves it: the async arrow
\* function has called triggerEventWebhooks, which has issued its registry
\* query and awaits the answer (lines 18-20 and 49)
HandlerStart(eventType, data, emit) ==
    Invocation("event", eventType, data, 0, emit)

(***************************************************************************)
(* The monthly report                                                      *)
(***************************************************************************)
\* { name: `${index + 1}. ${row.title}`,
\*   value: `${Math.round(row.total_minutes)} minutes U+2022 ${row.unique_viewers} viewers`,
\*   inline: false }
\* (total_minutes is a whole number in every row the model answers)
ContentField(index, row) ==
    Obj([k \in {K_name, K_value, K_inline} |->
          IF k = K_name THEN Str(Decimal(index) \o <<".", " ">> \o row.title)
          ELSE IF k = K_value
          THEN Str(Decimal(row.total_minutes) \o S_minutesSep
                   \o Decimal(row.unique_viewers) \o S_viewers)
          ELSE Bool(FALSE)])

\* rows.map((row, index) => ...)
ContentFields(rows) == [i \in DOMAIN rows |-> ContentField(i, rows[i])]

\* [{ name: "No data", value: text }]
NoDataFields(text) == << Obj2(K_name, Str(S_NoData), K_value, Str(text)) >>

\* FieldsOrNoData without the placeholder entry
FieldsAsMapped(fields, text) == fields

\* fields.length > 0 ? fields : [{ name: "No data", value: text }]
FieldsOrNoData(fields, text) == IF Len(fields) > 0 THEN fields ELSE NoDataFields(text)

StatField(name, n) ==
    Obj([k \in {K_name, K_value, K_inline} |->
          IF k = K_name THEN Str(name)
          ELSE IF k = K_value THEN Str(Decimal(n))
          ELSE Bool(TRUE)])

Embed(title, color, fields) ==
    Obj([k \in {K_title, K_color, K_fields} |->
          IF k = K_title THEN Str(title)
          ELSE IF k = K_color THEN Num(color)
          ELSE Arr(fields)])

ColorMovies == 15844367
ColorSeries == 5793266
ColorStats == 5763719

\* statsResult.rows[0] || { active_users: 0, total_plays: 0, total_hours: 0 }
GeneralStats(rows) ==
    IF rows # <<>> THEN rows[1]
    ELSE [active_users |-> 0, total_plays |-> 0, total_hours |-> 0]

\* the days of month m (0 is January, as in Date) of year y
DaysIn(y, m) ==
    LET leap == (y % 4 = 0 /\ y % 100 # 0) \/ y % 400 = 0
    IN  IF m = 1 THEN (IF leap THEN 29 ELSE 28)
        ELSE IF m \in {3, 5, 8, 10} THEN 30 ELSE 31

RECURSIVE MakeDate(_, _, _)
\* new Date(year, monthIndex, day) at local midnight: a month index outside
\* 0..11 and a day outside the month carry into the neighbouring months
MakeDate(y, m, d) ==
    IF m < 0 THEN MakeDate(y - 1, m + 12, d)
    ELSE IF m > 11 THEN MakeDate(y + 1, m - 12, d)
    ELSE IF d < 1
    THEN (IF m = 0 THEN MakeDate(y - 1, 11, d + 31)
          ELSE MakeDate(y, m - 1, d + DaysIn(y, m - 1)))
    ELSE IF d > DaysIn(y, m) THEN MakeDate(y, m + 1, d - DaysIn(y, m))
    ELSE [y |-> y, m |-> m, d |-> d]

\* date.setMonth(monthIndex): the day of the month is kept and carries
SetMonth(date, m) == MakeDate(date.y, m, date.d)

\* two digits
Pad2(n) == IF n < 10 THEN <<"0">> \o Decimal(n) ELSE Decimal(n)

\* the time zones the process runs in: one at UTC, one behind it and one
\* ahead of it all year, and one behind it in winter and at UTC in summer
TimeZones == {"UTC", "America/New_York", "Asia/Tokyo", "Atlantic/Azores"}

\* the day of the week of a date, 0 being Sunday
Weekday(date) ==
    LET t == <<0, 3, 2, 5, 0, 3, 5, 1, 4, 6, 2, 4>>
        y == IF date.m < 2 THEN date.y - 1 ELSE date.y
    IN  (y + y \div 4 - y \div 100 + y \div 400 + t[date.m + 1] + date.d) % 7

\* the offset of local time from UTC, in hours, at the midnight of a date
\* (its UTC midnight and its local midnight alike: the clocks change after
\* both, at 01:00 UTC in the Azores and at 02:00 local time in New York).
\* Summer time runs in the Azores from the last Sunday of March to the last
\* Sunday of October, in New York from the second Sunday of March to the
\* first Sunday of November
OffsetHours(tz, date) ==
    LET sunday(m, first) ==
            first + ((7 - Weekday([y |-> date.y, m |-> m, d |-> first])) % 7)
        after(m, d) == date.m > m \/ (date.m = m /\ date.d > d)
        summer(m1, d1, m2, d2) == after(m1, d1) /\ ~after(m2, d2)
    IN  CASE tz = "UTC" -> 0
          [] tz = "Asia/Tokyo" -> 9
          [] tz = "America/New_York" ->
                IF summer(2, sunday(2, 8), 10, sunday(10, 1)) THEN -4 ELSE -5
          [] tz = "Atlantic/Azores" ->
                IF summer(2, sunday(2, 25), 9, sunday(9, 25)) THEN 0 ELSE -1

\* the local calendar day of the instant c, in ms since the epoch (the
\* instants the integers of the model reach lie in January 1970, in winter
\* time)
LocalDay(c, tz) ==
    LET ms == c + OffsetHours(tz, [y |-> 1970, m |-> 0, d |-> 1]) * 3600000
        days == IF ms >= 0 THEN ms \div 86400000
                ELSE -((86400000 - 1 - ms) \div 86400000)
    IN  MakeDate(1970, 0, 1 + days)

\* date.toISOString().split('T')[0] for a date at local midnight: the text
\* of its UTC calendar day, which is the day before when local time is ahead
\* of UTC
IsoDay(date, tz) ==
    LET u == IF OffsetHours(tz, date) > 0
             THEN MakeDate(date.y, date.m, date.d - 1) ELSE date
    IN  Decimal(u.y) \o <<"-">> \o Pad2(u.m + 1) \o <<"-">> \o Pad2(u.d)

\* getTopWatchedContent(contentType, 'month', 5): the parameters of its
\* query, "ActivityDateInserted" >= $1 with no upper bound
TopWatchedWindow(today, tz) ==
    [from |-> IsoDay(MakeDate(today.y, today.m - 1, 1), tz),
     bounded |-> FALSE, to |-> <<>>]

\* the period of getMonthlySummaryData (lines 255-261 and 281-285): its
\* start and end, which are also the parameters of the statistics query
\* ("ActivityDateInserted" BETWEEN $1 AND $2), and its name,
\* prevMonth.toLocaleString('fr-FR', { month: 'long', year: 'numeric' })
SummaryPeriod(today, tz) ==
    LET prevMonth == SetMonth(today, today.m - 1)
        prevMonthStart == MakeDate(prevMonth.y, prevMonth.m, 1)
        prevMonthEnd == MakeDate(prevMonth.y, prevMonth.m + 1, 0)
        frenchMonths ==
            << <<"j", "a", "n", "v", "i", "e", "r">>,
               <<"f", "é", "v", "r", "i", "e", "r">>,
               <<"m", "a", "r", "s">>,
               <<"a", "v", "r", "i", "l">>,
               <<"m", "a", "i">>,
               <<"j", "u", "i", "n">>,
               <<"j", "u", "i", "l", "l", "e", "t">>,
               <<"a", "o", "û", "t">>,
               <<"s", "e", "p", "t", "e", "m", "b", "r", "e">>,
               <<"o", "c", "t", "o", "b", "r", "e">>,
               <<"n", "o", "v", "e", "m", "b", "r", "e">>,
               <<"d", "é", "c", "e", "m", "b", "r", "e">> >>
    IN  [start |-> IsoDay(prevMonthStart, tz),
         end |-> IsoDay(prevMonthEnd, tz),
         name |-> frenchMonths[prevMonth.m + 1] \o <<" ">> \o Decimal(prevMonth.y)]

\* the embeds of monthlyPayload (lines 329-364); the footer of the third
\* holds the two ends of the period, each read back with new Date(text),
\* the UTC midnight of the day, and printed with
\* toLocaleDateString('en-US') as month/day/year of the local day, which is
\* the day before when local time is behind UTC on that day
MonthlyEmbeds(topMovies, topSeries, stats, period, tz) ==
    LET val(j, text) == CHOOSE n \in 0..9 : Digit(n) = text[j]
        usDay(text) ==
            LET y == 1000 * val(1, text) + 100 * val(2, text)
                         + 10 * val(3, text) + val(4, text)
                m == 10 * val(6, text) + val(7, text)
                d == 10 * val(9, text) + val(10, text)
                day == MakeDate(y, m - 1, d)
                l == IF OffsetHours(tz, day) < 0 THEN MakeDate(y, m - 1, d - 1)
                     ELSE day
            IN  Decimal(l.m + 1) \o <<"/">> \o Decimal(l.d) \o <<"/">> \o Decimal(l.y)
        footerText ==
            <<"P", "e", "r", "i", "o", "d", ":", " ", "f", "r", "o", "m", " ">>
                \o usDay(period.start) \o <<" ", "t", "o", " ">> \o usDay(period.end)
        K_footer == <<"f", "o", "o", "t", "e", "r">>
        K_text == <<"t", "e", "x", "t">>
    IN  << Embed(S_MoviesTitle, ColorMovies,
                 FieldsOrNoData(ContentFields(topMovies), S_NoMovies)),
           Embed(S_SeriesTitle, ColorSeries,
                 FieldsOrNoData(ContentFields(topSeries), S_NoSeries)),
           Spread(Embed(S_StatsTitle, ColorStats,
                        << StatField(S_ActiveUsers, stats.active_users),
                           StatField(S_TotalPlays, stats.total_plays),
                           StatField(S_TotalHours, stats.total_hours) >>),
                  K_footer, Obj1(K_text, Str(footerText))) >>

\* monthlyPayload (lines 327-365): the content line, which names the
\* period, and the embeds
MonthlyPayload(topMovies, topSeries, stats, period, tz) ==
    LET contentText ==
            <<"U+1F4CA", " ", "*", "*", "M", "o", "n", "t", "h", "l", "y", " ",
              "R", "e", "p", "o", "r", "t", " ", "-", " ">>
                \o period.name \o <<"*", "*">>
    IN  Obj2(K_content, Str(contentText),
             K_embeds, Arr(MonthlyEmbeds(topMovies, topSeries, stats, period, tz)))

(***************************************************************************)
(* Initial state                                                           *)
(***************************************************************************)
Init ==
    /\ instance = FALSE
    /\ listeners = [e \in EventNames |-> 0]
    /\ enabled = InitiallyEnabled
    /\ lastTriggered = [w \in WebhookIds |-> 0]
    /\ clock = 1
    /\ ncalls = 0
    /\ emits = <<>>
    /\ inv = <<>>
    /\ calls = {}
    /\ updates = {}
    /\ zone \in TimeZones
    /\ pure = NoCall

(***************************************************************************)
(* Operations                                                              *)
(***************************************************************************)
\* setupEventListeners: one more handler on every known event
setupEventListeners(ls) ==
    [e \in EventNames |-> IF e \in KnownEvents THEN ls[e] + 1 ELSE ls[e]]

\* ConstructedListeners without the instance check: every construction
\* registers its handlers
ConstructedListenersAlways(inst, ls) == setupEventListeners(ls)

\* the handlers after new WebhookManager(): a construction that finds
\* WebhookManager.instance returns it at line 8, before setupEventListeners
ConstructedListeners(inst, ls) == IF inst THEN ls ELSE setupEventListeners(ls)

\* new WebhookManager(): the first construction creates the emitter and
\* registers one handler per known event; later ones return the instance
Construct ==
    /\ instance' = TRUE
    /\ listeners' = ConstructedListeners(instance, listeners)
    /\ UNCHANGED <<zone, pure>>
    /\ UNCHANGED <<enabled, lastTriggered, clock, ncalls, emits, inv,
                   calls, updates>>

\* the admin surface edits the enabled column of a row
SetEnabled(w, b) ==
    /\ enabled' = [enabled EXCEPT ![w] = b]
    /\ UNCHANGED <<zone, pure>>
    /\ UNCHANGED <<instance, listeners, lastTriggered, clock, ncalls, emits, inv,
                   calls, updates>>

\* emitEvent(eventType, data): every handler of the name runs up to the
\* registry query of its triggerEventWebhooks, then emit returns
emitEvent(eventType, data) ==
    /\ instance
    /\ ncalls < MaxCalls
    /\ ncalls' = ncalls + 1
    /\ LET n == listeners[eventType]
           started == [k \in 1..n |-> HandlerStart(eventType, data, Len(emits) + 1)]
       IN  /\ inv' = inv \o started
           /\ emits' = Append(emits, [name |-> eventType,
                                      started |-> {Len(inv) + k : k \in 1..n}])
    /\ UNCHANGED <<zone, pure>>
    /\ UNCHANGED <<instance, listeners, enabled, lastTriggered, clock,  calls, updates>>

\* triggerEventWebhooks from the answer of the registry query to the await
\* of Promise.all, or to its return
RegistryAnswer(i) ==
    /\ i \in DOMAIN inv
    /\ inv[i].op = "event"
    /\ inv[i].pc = "query"
    /\ \E ok \in BOOLEAN :
      \E rows \in getWebhooksByEventType(inv[i].eventType) :
        LET r == inv[i]
            enriched == EnrichedData(r.data, r.eventType, clock)
            starts == [k \in DOMAIN rows |-> ExecuteStart(Webhooks[rows[k]], enriched)]
            ds == [k \in DOMAIN rows |->
                      IF k \in Launched(rows) THEN starts[k].d
                      ELSE Delivery(rows[k], "new", "pending", FALSE)]
            issued == {k \in Launched(rows) : starts[k].issue}
        IN  IF ~ok
            THEN /\ inv' = [inv EXCEPT ![i] = RegistryFailed(r)]
                 /\ UNCHANGED <<clock, calls>>
            ELSE IF Len(rows) = 0
            THEN /\ inv' = [inv EXCEPT ![i] = [r EXCEPT !.pc = "returned",
                                                        !.result = NoWebhooksResult,
                                                        !.seen = enabled]]
                 /\ UNCHANGED <<clock, calls>>
            ELSE /\ clock' = clock + 1
                 /\ calls' = calls \cup {[inv |-> i, idx |-> k, wid |-> rows[k],
                                          req |-> starts[k].req] : k \in issued}
                 /\ inv' = [inv EXCEPT ![i] =
                              AfterJoin([r EXCEPT !.pc = "join", !.rows = rows,
                                                  !.seen = enabled,
                                                  !.enriched = enriched], ds)]
    /\ UNCHANGED <<zone, pure>>
    /\ UNCHANGED <<instance, listeners, enabled, lastTriggered, ncalls,
                   emits, updates>>

\* executeWebhook from the settling of its axios call to the await of the
\* UPDATE, or to its return
HttpAnswer(i, k) ==
    /\ i \in DOMAIN inv
    /\ inv[i].op \in {"event", "execute"}
    /\ k \in DOMAIN inv[i].deliv
    /\ inv[i].deliv[k].st = "http"
    /\ \E resp \in Responses :
        LET d == [inv[i].deliv[k] EXCEPT !.resp = resp]
            d2 == IF AxiosResolves(resp) THEN [d EXCEPT !.st = "update"]
                  ELSE CatchAll(d)
        IN  inv' = [inv EXCEPT ![i] = Resume(@, [@.deliv EXCEPT ![k] = d2])]
    /\ UNCHANGED <<zone, pure>>
    /\ UNCHANGED <<instance, listeners, enabled, lastTriggered, clock,  ncalls, emits, calls, updates>>

\* executeWebhook from the answer of UPDATE webhooks SET last_triggered = NOW()
\* to its return
UpdateAnswer(i, k) ==
    /\ i \in DOMAIN inv
    /\ inv[i].op \in {"event", "execute"}
    /\ k \in DOMAIN inv[i].deliv
    /\ inv[i].deliv[k].st = "update"
    /\ \E ok \in BOOLEAN :
        LET d == inv[i].deliv[k]
            d2 == IF ok THEN ReturnTrue([d EXCEPT !.upd = "ok"])
                  ELSE CatchAll([d EXCEPT !.upd = "fail"])
        IN  /\ inv' = [inv EXCEPT ![i] = Resume(@, [@.deliv EXCEPT ![k] = d2])]
            /\ IF ok
               THEN /\ lastTriggered' = RecordDelivery(lastTriggered, d.wid, clock)
                    /\ updates' = updates \cup {[inv |-> i, wid |-> d.wid, at |-> clock]}
                    /\ clock' = clock + 1
               ELSE UNCHANGED <<lastTriggered, updates, clock>>
    /\ UNCHANGED <<zone, pure>>
    /\ UNCHANGED <<instance, listeners, enabled, ncalls, emits, calls>>

\* the rows and the data the methods are called with directly
DirectRows == {1, 2, 3}
DiscordRows == {2, 4}
DiscordData == Obj1(K_content, Str(S_hi))

\* setupEventListeners() called on the constructed manager: one more
\* handler on every known event
CallSetupEventListeners ==
    /\ instance
    /\ ncalls < MaxCalls
    /\ ncalls' = ncalls + 1
    /\ listeners' = setupEventListeners(listeners)
    /\ UNCHANGED <<zone, pure>>
    /\ UNCHANGED <<instance, enabled, lastTriggered, clock, emits, inv, calls, updates>>

\* triggerEventWebhooks(eventType, data) called on the manager, no
\* publication having started it: up to its registry query
triggerEventWebhooks(eventType, data) ==
    /\ instance
    /\ ncalls < MaxCalls
    /\ ncalls' = ncalls + 1
    /\ inv' = Append(inv, Invocation("event", eventType, data, 0, 0))
    /\ UNCHANGED <<zone, pure>>
    /\ UNCHANGED <<instance, listeners, enabled, lastTriggered, clock, emits, calls, updates>>

\* triggerEvent(eventType, eventData): this.eventWebhooks is never set, so
\* the list of line 165 is empty and the method returns at line 169
triggerEvent(eventType, eventData) ==
    /\ instance
    /\ ncalls < MaxCalls
    /\ ncalls' = ncalls + 1
    /\ inv' = Append(inv, [Invocation("triggerEvent", eventType, eventData, 0, 0)
                              EXCEPT !.pc = "returned", !.result = RetUndefined])
    /\ UNCHANGED <<zone, pure>>
    /\ UNCHANGED <<instance, listeners, enabled, lastTriggered, clock, emits, calls, updates>>

\* executeWebhook(webhook, data) called on the manager with a row of the
\* table, enabled or not, and data that no dispatch has enriched: up to its
\* first await, or to its return
executeWebhook(w, data) ==
    /\ instance
    /\ ncalls < MaxCalls
    /\ ncalls' = ncalls + 1
    /\ LET start == ExecuteStart(Webhooks[w], data)
           r == [Invocation("execute", <<>>, data, w, 0) EXCEPT
                    !.pc = "execute", !.rows = <<w>>, !.enriched = data]
       IN  /\ inv' = Append(inv, Resume(r, <<start.d>>))
           /\ calls' = IF start.issue
                       THEN calls \cup {[inv |-> Len(inv) + 1, idx |-> 1, wid |-> w,
                                         req |-> start.req]}
                       ELSE calls
    /\ UNCHANGED <<zone, pure>>
    /\ UNCHANGED <<instance, listeners, enabled, lastTriggered, clock, emits, updates>>

\* executeDiscordWebhook(webhook, data) up to its await: axios.post(url,
\* data, { headers }) with no timeout given (0, the default of axios)
executeDiscordWebhook(w, data) ==
    /\ instance
    /\ ncalls < MaxCalls
    /\ ncalls' = ncalls + 1
    /\ inv' = Append(inv, [Invocation("discord", <<>>, data, w, 0) EXCEPT
                              !.pc = "post", !.rows = <<w>>,
                              !.deliv = <<AwaitingAxios(w)>>])
    /\ calls' = calls \cup {[inv |-> Len(inv) + 1, idx |-> 1, wid |-> w,
                             req |-> [method |-> S_POST, url |-> Webhooks[w].url,
                                      headers |-> JsonHeaders, data |-> data,
                                      timeout |-> 0]]}
    /\ UNCHANGED <<zone, pure>>
    /\ UNCHANGED <<instance, listeners, enabled, lastTriggered, clock, emits, updates>>

\* executeDiscordWebhook from the settling of axios.post to its return:
\* response.status >= 200 && response.status < 300 on a response, which
\* axios gives for a 2xx status only, and false from the catch otherwise;
\* last_triggered is not written
DiscordAnswer(i) ==
    /\ i \in DOMAIN inv
    /\ inv[i].op = "discord"
    /\ inv[i].pc = "post"
    /\ \E resp \in Responses :
        LET d == [inv[i].deliv[1] EXCEPT !.resp = resp, !.st = "done",
                                        !.p = "fulfilled",
                                        !.value = AxiosResolves(resp)]
        IN  inv' = [inv EXCEPT ![i] =
                      [@ EXCEPT !.pc = "returned", !.deliv = <<d>>,
                                !.result = IF d.value THEN RetTrue ELSE RetFalse]]
    /\ UNCHANGED <<zone, pure>>
    /\ UNCHANGED <<instance, listeners, enabled, lastTriggered, clock, ncalls, emits,
                   calls, updates>>

\* triggerMonthlySummaryWebhook(webhookId) up to its lookup query
triggerMonthlySummaryWebhook(webhookId) ==
    /\ instance
    /\ ncalls < MaxCalls
    /\ ncalls' = ncalls + 1
    /\ inv' = Append(inv, Invocation("summary", <<>>, Null, webhookId, 0))
    /\ UNCHANGED <<zone, pure>>
    /\ UNCHANGED <<instance, listeners, enabled, lastTriggered, clock,  emits, calls, updates>>

\* from the answer of the lookup by id to the top-movies query
SummaryLookupAnswer(i) ==
    /\ i \in DOMAIN inv
    /\ inv[i].op = "summary"
    /\ inv[i].pc = "query"
    /\ \E ok \in BOOLEAN :
      \E rows \in getWebhookById(inv[i].webhookId) :
        LET r == inv[i]
        IN  inv' = [inv EXCEPT ![i] =
                IF ~ok
                THEN [r EXCEPT !.pc = "returned", !.result = RetFalse,
                               !.failed = {"lookup"}]
                ELSE IF Len(rows) = 0
                THEN [r EXCEPT !.pc = "returned", !.result = RetFalse,
                               !.seen = enabled]
                ELSE [r EXCEPT !.pc = "movies", !.rows = rows, !.seen = enabled,
                               !.asked = {"movies"}]]
    /\ UNCHANGED <<zone, pure>>
    /\ UNCHANGED <<instance, listeners, enabled, lastTriggered, clock,  ncalls, emits, calls, updates>>

\* the answers of a top-content query: its rows, or an error
ContentAnswers == {[ok |-> TRUE, rows |-> x] : x \in ContentRows}
                      \cup {[ok |-> FALSE, rows |-> <<>>]}

\* getTopWatchedContent: result.rows || [], and [] on an error (lines 240-246)
TopWatchedResult(ans) == IF ans.ok THEN ans.rows ELSE <<>>

\* getTopWatchedContent('movie') from the answer of its query on, then the
\* top-series query
MoviesAnswer(i) ==
    /\ i \in DOMAIN inv
    /\ inv[i].pc = "movies"
    /\ \E ans \in ContentAnswers :
        inv' = [inv EXCEPT ![i] =
                  [@ EXCEPT !.pc = "series", !.topMovies = TopWatchedResult(ans),
                            !.asked = @ \cup {"series"},
                            !.failed = IF ans.ok THEN @ ELSE @ \cup {"movies"}]]
    /\ UNCHANGED <<zone, pure>>
    /\ UNCHANGED <<instance, listeners, enabled, lastTriggered, clock,  ncalls, emits, calls, updates>>

\* getTopWatchedContent('series') from the answer of its query on, then the
\* period, computed from new Date() at line 255 (the local day of the
\* instant), and the statistics query, issued with its two ends
SeriesAnswer(i) ==
    /\ i \in DOMAIN inv
    /\ inv[i].pc = "series"
    /\ \E ans \in ContentAnswers :
        inv' = [inv EXCEPT ![i] =
                  [@ EXCEPT !.pc = "stats", !.topSeries = TopWatchedResult(ans),
                            !.period = <<SummaryPeriod(LocalDay(clock, zone), zone)>>,
                            !.asked = @ \cup {"stats"},
                            !.failed = IF ans.ok THEN @ ELSE @ \cup {"series"}]]
    /\ UNCHANGED <<zone, pure>>
    /\ UNCHANGED <<instance, listeners, enabled, lastTriggered, clock,  ncalls, emits, calls, updates>>

\* the answers of the statistics query
StatsAnswers == {[ok |-> TRUE, rows |-> x] : x \in StatsRows}
                    \cup {[ok |-> FALSE, rows |-> <<>>]}

\* from the answer of the statistics query to the axios call, the payload
\* holding the period computed before the query was issued: an error is
\* rethrown by getMonthlySummaryData and caught at line 385
StatsAnswer(i) ==
    /\ i \in DOMAIN inv
    /\ inv[i].pc = "stats"
    /\ \E ans \in StatsAnswers :
        LET r == inv[i]
            webhook == Webhooks[r.rows[1]]
            stats == GeneralStats(ans.rows)
            period == r.period[1]
            req == Request(webhook, JsonHeaders,
                           MonthlyPayload(r.topMovies, r.topSeries, stats,
                                          period, zone))
        IN  IF ~ans.ok
            THEN /\ inv' = [inv EXCEPT ![i] =
                              [r EXCEPT !.pc = "returned", !.result = RetFalse,
                                        !.failed = @ \cup {"stats"}]]
                 /\ UNCHANGED calls
            ELSE /\ inv' = [inv EXCEPT ![i] =
                              [r EXCEPT !.pc = "http", !.stats = <<stats>>,
                                        !.deliv = <<AwaitingAxios(webhook.id)>>]]
                 /\ calls' = calls \cup {[inv |-> i, idx |-> 1, wid |-> webhook.id,
                                          req |-> req]}
    /\ UNCHANGED <<zone, pure>>
    /\ UNCHANGED <<instance, listeners, enabled, lastTriggered, clock,  ncalls, emits, updates>>

\* from the settling of the axios call of the report to the UPDATE, or to
\* the return at line 387
SummaryHttpAnswer(i) ==
    /\ i \in DOMAIN inv
    /\ inv[i].pc = "http"
    /\ \E resp \in Responses :
        LET r == inv[i]
            d == [r.deliv[1] EXCEPT !.resp = resp]
        IN  inv' = [inv EXCEPT ![i] =
                IF AxiosResolves(resp)
                THEN [r EXCEPT !.pc = "update", !.deliv = <<[d EXCEPT !.st = "update"]>>]
                ELSE [r EXCEPT !.pc = "returned", !.result = RetFalse,
                               !.deliv = <<CatchAll(d)>>]]
    /\ UNCHANGED <<zone, pure>>
    /\ UNCHANGED <<instance, listeners, enabled, lastTriggered, clock,  ncalls, emits, calls, updates>>

\* from the answer of the UPDATE of the report to the return
SummaryUpdateAnswer(i) ==
    /\ i \in DOMAIN inv
    /\ inv[i].pc = "update"
    /\ \E ok \in BOOLEAN :
        LET r == inv[i]
            d == r.deliv[1]
        IN  IF ok
            THEN /\ inv' = [inv EXCEPT ![i] =
                              [r EXCEPT !.pc = "returned", !.result = RetTrue,
                                        !.deliv = <<ReturnTrue([d EXCEPT !.upd = "ok"])>>]]
                 /\ lastTriggered' = RecordDelivery(lastTriggered, d.wid, clock)
                 /\ updates' = updates \cup {[inv |-> i, wid |-> d.wid, at |-> clock]}
                 /\ clock' = clock + 1
            ELSE /\ inv' = [inv EXCEPT ![i] =
                              [r EXCEPT !.pc = "returned", !.result = RetFalse,
                                        !.deliv = <<CatchAll([d EXCEPT !.upd = "fail"])>>]]
                 /\ UNCHANGED <<lastTriggered, updates, clock>>
    /\ UNCHANGED <<zone, pure>>
    /\ UNCHANGED <<instance, listeners, enabled, ncalls, emits, calls>>

(***************************************************************************)
(* Specification                                                           *)
(***************************************************************************)
Next ==
    \/ Construct
    \/ CallSetupEventListeners
    \/ \E w \in ToggleRows, b \in BOOLEAN : SetEnabled(w, b)
    \/ \E e \in EventNames, data \in DataChoices : emitEvent(e, data)
    \/ \E e \in EventNames, data \in DataChoices : triggerEventWebhooks(e, data)
    \/ \E e \in EventNames, data \in DataChoices : triggerEvent(e, data)
    \/ \E w \in DirectRows, data \in DataChoices : executeWebhook(w, data)
    \/ \E w \in DiscordRows : executeDiscordWebhook(w, DiscordData)
    \/ \E id \in SummaryIds : triggerMonthlySummaryWebhook(id)
    \/ \E i \in DOMAIN inv : RegistryAnswer(i)
    \/ \E i \in DOMAIN inv, k \in WebhookIds : HttpAnswer(i, k)
    \/ \E i \in DOMAIN inv, k \in WebhookIds : UpdateAnswer(i, k)
    \/ \E i \in DOMAIN inv : DiscordAnswer(i)
    \/ \E i \in DOMAIN inv : SummaryLookupAnswer(i)
    \/ \E i \in DOMAIN inv : MoviesAnswer(i)
    \/ \E i \in DOMAIN inv : SeriesAnswer(i)
    \/ \E i \in DOMAIN inv : StatsAnswer(i)
    \/ \E i \in DOMAIN inv : SummaryHttpAnswer(i)
    \/ \E i \in DOMAIN inv : SummaryUpdateAnswer(i)

Spec == Init /\ [][Next]_vars

(***************************************************************************)
(* Direct calls of compileTemplate                                         *)
(***************************************************************************)
\* the pieces of a template text
MaxPieces == 2

\* literal text
Lit(s) == [k |-> "lit", s |-> s]

\* a placeholder: {{ , padding, the keys joined by dots, padding, }}
Hole(path, pad) == [k |-> "hole", path |-> path, pad |-> pad]

RECURSIVE JoinDot(_)
JoinDot(path) ==
    IF path = <<>> THEN <<>>
    ELSE Head(path) \o (IF Len(path) > 1 THEN <<".">> \o JoinDot(Tail(path)) ELSE <<>>)

PieceText(p) ==
    IF p.k = "lit" THEN p.s
    ELSE <<"{", "{">> \o p.pad \o JoinDot(p.path) \o p.pad \o <<"}", "}">>

RECURSIVE TextOf(_)
\* the template text made of the pieces
TextOf(pieces) ==
    IF pieces = <<>> THEN <<>> ELSE PieceText(Head(pieces)) \o TextOf(Tail(pieces))

\* the pieces template texts are made of: literal texts, among them lone
\* braces and the text event}}, and placeholders
Pieces ==
    { Lit(S_hi), Lit(<<"}">>), Lit(<<"{">>), Lit(K_event \o <<"}", "}">>),
      Hole(<<K_userName>>, <<>>),
      Hole(<<K_userName>>, <<" ">>),
      Hole(<<K_event>>, <<>>),
      Hole(<<K_user>>, <<>>),
      Hole(<<K_data, K_userName>>, <<>>),
      Hole(<<K_userName, K_user>>, <<>>) }

RECURSIVE PieceSeqs(_)
\* the sequences of at most n pieces
PieceSeqs(n) ==
    IF n = 0 THEN {<<>>}
    ELSE LET S == PieceSeqs(n - 1)
         IN  S \cup {Append(q, p) : q \in {x \in S : Len(x) = n - 1}, p \in Pieces}

\* the data trees compileTemplate is called with
DataTrees ==
    { EmptyObj,
      Obj1(K_userName, Str(S_alice)),
      Obj2(K_userName, Num(7), K_data, Obj1(K_userName, Str(S_alice))),
      Obj2(K_userName, Str(T_event), K_event, Str(S_hi)),
      Obj2(K_userName, Str(<<"{", "{">>), K_event, Str(S_hi)),
      Obj2(K_userName, Bool(TRUE), K_data, Null),
      Obj2(K_userName, Null, K_event, Str(S_hi)),
      Obj1(K_userName, Obj1(K_user, Str(S_hi))) }

\* the template texts the structured templates hold
LeafTexts == {Str(PieceText(p)) : p \in Pieces}

\* templates that are not strings: scalars, mappings, sequences, nested
StructuredTemplates ==
    { Num(7), Bool(FALSE), Null, EmptyObj, Arr(<<>>), Obj1(K_user, Null) }
        \cup {Obj1(K_user, t) : t \in LeafTexts}
        \cup {Obj2(K_user, t, K_content, Num(7)) : t \in LeafTexts}
        \cup {Obj1(K_data, Obj1(K_user, t)) : t \in LeafTexts}
        \cup {Arr(<<t, Bool(TRUE)>>) : t \in LeafTexts}
        \cup {Obj1(K_content, Arr(<<t>>)) : t \in LeafTexts}

\* a call of compileTemplate before it runs
CompileArgs ==
    {[pc |-> "args", text |-> TRUE, pieces |-> q, template |-> Str(TextOf(q)),
      data |-> d, out |-> Undefined, out2 |-> Undefined] :
        q \in PieceSeqs(MaxPieces), d \in DataTrees}
    \cup
    {[pc |-> "args", text |-> FALSE, pieces |-> <<>>, template |-> t,
      data |-> d, out |-> Undefined, out2 |-> Undefined] :
        t \in StructuredTemplates, d \in DataTrees}

InitCompile ==
    /\ instance = FALSE
    /\ listeners = [e \in EventNames |-> 0]
    /\ enabled = InitiallyEnabled
    /\ lastTriggered = [w \in WebhookIds |-> 0]
    /\ clock = 1
    /\ ncalls = 0
    /\ emits = <<>>
    /\ inv = <<>>
    /\ calls = {}
    /\ updates = {}
    /\ zone = "UTC"
    /\ pure \in CompileArgs

\* compileTemplate(template, data)
CompileCall ==
    /\ pure.pc = "args"
    /\ pure' = [pure EXCEPT !.pc = "compiled",
                            !.out = compileTemplate(pure.template, pure.data)]
    /\ UNCHANGED zone
    /\ UNCHANGED <<instance, listeners, enabled, lastTriggered, clock, ncalls,
                   emits, inv, calls, updates>>

\* compileTemplate again, on the value it returned and the same data
RecompileCall ==
    /\ pure.pc = "compiled"
    /\ pure.out # Thrown
    /\ pure' = [pure EXCEPT !.pc = "recompiled",
                            !.out2 = compileTemplate(pure.out, pure.data)]
    /\ UNCHANGED zone
    /\ UNCHANGED <<instance, listeners, enabled, lastTriggered, clock, ncalls,
                   emits, inv, calls, updates>>

NextCompile ==
    \/ CompileCall
    \/ RecompileCall

SpecCompile == InitCompile /\ [][NextCompile]_vars

(***************************************************************************)
(* Direct calls of getScheduledWebhooks                                    *)
(***************************************************************************)
\* the table with any content of its enabled column
InitRegistry ==
    /\ instance = FALSE
    /\ listeners = [e \in EventNames |-> 0]
    /\ enabled \in [WebhookIds -> BOOLEAN]
    /\ lastTriggered = [w \in WebhookIds |-> 0]
    /\ clock = 1
    /\ ncalls = 0
    /\ emits = <<>>
    /\ inv = <<>>
    /\ calls = {}
    /\ updates = {}
    /\ zone = "UTC"
    /\ pure = NoCall

\* getScheduledWebhooks(): the rows the query answers, with the enabled
\* column it was evaluated on
ScheduledQuery ==
    /\ \E rows \in getScheduledWebhooks :
          pure' = [pc |-> "rows", rows |-> rows, at |-> enabled]
    /\ UNCHANGED zone
    /\ UNCHANGED <<instance, listeners, enabled, lastTriggered, clock, ncalls,
                   emits, inv, calls, updates>>

NextRegistry ==
    \/ \E w \in WebhookIds, b \in BOOLEAN : SetEnabled(w, b)
    \/ ScheduledQuery

SpecRegistry == InitRegistry /\ [][NextRegistry]_vars

(***************************************************************************)
(* Overlapping dispatch cycles of one event                                *)
(***************************************************************************)
\* the manager at work: constructed, with one publication of playback_ended
\* under way, its handler awaiting the registry query; ncalls counts the
\* publications that follow
InitCycles ==
    /\ instance = TRUE
    /\ listeners = setupEventListeners([e \in EventNames |-> 0])
    /\ enabled = InitiallyEnabled
    /\ lastTriggered = [w \in WebhookIds |-> 0]
    /\ clock = 1
    /\ ncalls = 0
    /\ \E data \in DataChoices : inv = << HandlerStart(PlaybackEnded, data, 1) >>
    /\ emits = << [name |-> PlaybackEnded, started |-> {1}] >>
    /\ calls = {}
    /\ updates = {}
    /\ zone = "UTC"
    /\ pure = NoCall

\* further publications of playback_ended while the earlier cycles run, and
\* the steps of every cycle
NextCycles ==
    \/ \E data \in DataChoices : emitEvent(PlaybackEnded, data)
    \/ \E i \in 1..(MaxCalls + 1) : RegistryAnswer(i)
    \/ \E i \in 1..(MaxCalls + 1), k \in WebhookIds : HttpAnswer(i, k)
    \/ \E i \in 1..(MaxCalls + 1), k \in WebhookIds : UpdateAnswer(i, k)

SpecCycles == InitCycles /\ [][NextCycles]_vars

\* every answer awaited arrives: each registry query returns or fails, each
\* request issued gets a response, throws or reaches its timeout (axios is
\* given timeout: 10000), and each UPDATE returns or fails
AnswersArrive ==
    /\ \A i \in 1..(MaxCalls + 1) : WF_vars(RegistryAnswer(i))
    /\ \A i \in 1..(MaxCalls + 1), k \in WebhookIds :
          WF_vars(HttpAnswer(i, k)) /\ WF_vars(UpdateAnswer(i, k))

SpecCyclesFair == SpecCycles /\ AnswersArrive

(***************************************************************************)
(* Repeated constructions of the manager                                   *)
(***************************************************************************)
\* the constructions counted
MaxBuilds == 3

\* the emitters created so far, after a construction: new EventEmitter()
\* at line 11 is reached only when WebhookManager.instance is not set
BusesAfter(inst, b) == IF inst THEN b ELSE b + 1

\* no construction yet
InitBus ==
    /\ instance = FALSE
    /\ listeners = [e \in EventNames |-> 0]
    /\ enabled = InitiallyEnabled
    /\ lastTriggered = [w \in WebhookIds |-> 0]
    /\ clock = 1
    /\ ncalls = 0
    /\ emits = <<>>
    /\ inv = <<>>
    /\ calls = {}
    /\ updates = {}
    /\ zone = "UTC"
    /\ pure = [pc |-> "built", n |-> 0, buses |-> 0]

\* new WebhookManager(), the constructions and the emitters created being
\* counted
ConstructCounted ==
    /\ pure.n < MaxBuilds
    /\ instance' = TRUE
    /\ listeners' = ConstructedListeners(instance, listeners)
    /\ pure' = [pure EXCEPT !.n = @ + 1, !.buses = BusesAfter(instance, @)]
    /\ UNCHANGED zone
    /\ UNCHANGED <<enabled, lastTriggered, clock, ncalls, emits, inv,
                   calls, updates>>

NextBus ==
    \/ ConstructCounted
    \/ \E e \in EventNames, data \in DataChoices : emitEvent(e, data)
    \/ \E i \in 1..MaxCalls : RegistryAnswer(i)
    \/ \E i \in 1..MaxCalls, k \in WebhookIds : HttpAnswer(i, k)
    \/ \E i \in 1..MaxCalls, k \in WebhookIds : UpdateAnswer(i, k)

SpecBus == InitBus /\ [][NextBus]_vars

(***************************************************************************)
(* The period of the monthly report                                        *)
(***************************************************************************)
\* the years the current date is drawn from: one common year, one leap year
FirstYear == 2023
LastYear == 2024

\* the current dates
Todays ==
    {t \in [y : FirstYear..LastYear, m : 0..11, d : 1..31] : t.d <= DaysIn(t.y, t.m)}

\* the midnights that may pass while getMonthlySummaryData runs
MaxMidnights == 1

\* getMonthlySummaryData is called on some day, in some time zone; today is
\* the local day new Date() gives at the moment it is evaluated
InitPeriod ==
    /\ instance = FALSE
    /\ listeners = [e \in EventNames |-> 0]
    /\ enabled = InitiallyEnabled
    /\ lastTriggered = [w \in WebhookIds |-> 0]
    /\ clock = 1
    /\ ncalls = 0
    /\ emits = <<>>
    /\ inv = <<>>
    /\ calls = {}
    /\ updates = {}
    /\ zone \in TimeZones
    /\ \E today \in Todays :
          pure = [pc |-> "movies", today |-> today, midnights |-> 0,
                  queries |-> <<>>]

\* a midnight passes while a query is awaited: the next new Date() gives the
\* following day
MidnightPasses ==
    /\ pure.pc \in {"series", "stats"}
    /\ pure.midnights < MaxMidnights
    /\ pure' = [pure EXCEPT !.midnights = @ + 1,
                            !.today = MakeDate(@.y, @.m, @.d + 1)]
    /\ UNCHANGED zone
    /\ UNCHANGED <<instance, listeners, enabled, lastTriggered, clock, ncalls,
                   emits, inv, calls, updates>>

\* getTopWatchedContent('movie', ...) and then ('series', ...): each reads
\* the date with new Date() (line 195) and issues its query, recorded with
\* the day it read
TopWatchedQuery ==
    /\ pure.pc \in {"movies", "series"}
    /\ pure' = [pure EXCEPT !.pc = IF pure.pc = "movies" THEN "series" ELSE "stats",
                            !.queries =
                                LET w == TopWatchedWindow(pure.today, zone)
                                IN  Append(@, [from |-> w.from, bounded |-> w.bounded,
                                               to |-> w.to, on |-> pure.today])]
    /\ UNCHANGED zone
    /\ UNCHANGED <<instance, listeners, enabled, lastTriggered, clock, ncalls,
                   emits, inv, calls, updates>>

\* the statistics query of getMonthlySummaryData, on the date new Date()
\* gives at line 255, after the two top-content queries were answered
StatsQuery ==
    /\ pure.pc = "stats"
    /\ pure' = [pure EXCEPT !.pc = "asked",
                            !.queries =
                                LET p == SummaryPeriod(pure.today, zone)
                                IN  Append(@, [from |-> p.start, bounded |-> TRUE,
                                               to |-> p.end, on |-> pure.today])]
    /\ UNCHANGED zone
    /\ UNCHANGED <<instance, listeners, enabled, lastTriggered, clock, ncalls,
                   emits, inv, calls, updates>>

NextPeriod ==
    \/ TopWatchedQuery
    \/ MidnightPasses
    \/ StatsQuery

SpecPeriod == InitPeriod /\ [][NextPeriod]_vars

(***************************************************************************)
(* Properties                                                              *)
(***************************************************************************)
\* the invocations of triggerEventWebhooks
EventInvs == {i \in DOMAIN inv : inv[i].op = "event"}

\* the invocations that run executeWebhook: those of triggerEventWebhooks
\* and the calls of executeWebhook on the manager
ExecuteInvs == {i \in DOMAIN inv : inv[i].op \in {"event", "execute"}}

\* the invocations of triggerEventWebhooks past their registry query with
\* at least one row
Dispatching == {i \in EventInvs : inv[i].pc \in {"join", "returned"} /\ Len(inv[i].rows) > 0}

\* the axios requests delivery k of invocation i issued
CallsOf(i, k) == {c \in calls : c.inv = i /\ c.idx = k}

\* the UPDATE statements executed for webhook wid by invocation i
UpdatesOf(i, wid) == {u \in updates : u.inv = i /\ u.wid = wid}

\* the headers or the payload text of the row is not JSON
Malformed(w) ==
    \/ (w.headers.t = "text" /\ w.headers.x # "" /\ JSONParse(w.headers.x) = Thrown)
    \/ (w.payload.t = "text" /\ w.payload.x # "" /\ JSONParse(w.payload.x) = Thrown)

\* the url of the row holds the chat-webhook marker
ChatRow(w) == Includes(w.url, DiscordMarker)

\* the template of the row compiles against the data of invocation i
\* without a TypeError
Compiles(i, w) ==
    ChatRow(w) \/ compileTemplate(ParseColumn(w.payload), inv[i].enriched) # Thrown

\* C1: in an invocation that resolved rows of which exactly one has
\* malformed JSON, the malformed row issues no request and its
\* executeWebhook returns false, while every other row has its request
\* issued (its template compiling) and returns true once its request got a
\* 2xx answer and its UPDATE succeeded.
C1_MalformedIsolated ==
    \A i \in Dispatching :
        LET r == inv[i]
            bad == {k \in DOMAIN r.rows : Malformed(Webhooks[r.rows[k]])}
        IN  Cardinality(bad) = 1 =>
              \A k \in DOMAIN r.rows :
                LET d == r.deliv[k]
                IN  IF k \in bad
                    THEN /\ d.st = "done" /\ d.p = "fulfilled" /\ d.value = FALSE
                         /\ CallsOf(i, k) = {}
                    ELSE /\ Compiles(i, Webhooks[r.rows[k]]) => CallsOf(i, k) # {}
                         /\ (d.st = "done" /\ d.resp = "2xx" /\ d.upd = "ok")
                               => (d.p = "fulfilled" /\ d.value = TRUE)

\* an invocation returned with three rows, one malformed and failed, the
\* two others delivered and true
C1_Witness ==
    \E i \in Dispatching :
        /\ inv[i].pc = "returned"
        /\ Len(inv[i].rows) = 3
        /\ Cardinality({k \in DOMAIN inv[i].rows : Malformed(Webhooks[inv[i].rows[k]])}) = 1
        /\ Cardinality({k \in DOMAIN inv[i].rows : inv[i].deliv[k].value}) = 2

\* C2 as stated: last_triggered is updated if and only if the request got a
\* response, of any status (the deliveries whose UPDATE itself failed are
\* left aside).
C2_Original ==
    \A i \in ExecuteInvs : \A k \in DOMAIN inv[i].deliv :
        LET d == inv[i].deliv[k]
        IN  (d.st = "done" /\ d.upd # "fail") =>
              ((UpdatesOf(i, d.wid) # {}) <=> (d.resp \in {"2xx", "non2xx"}))

\* C2 amended: last_triggered is updated if and only if the request got a
\* 2xx response and the UPDATE succeeded; it is never updated when axios
\* rejects, on a transport exception as on a non-2xx response.
C2_UpdatedIffResolved ==
    \A i \in ExecuteInvs : \A k \in DOMAIN inv[i].deliv :
        LET d == inv[i].deliv[k]
        IN  /\ UpdatesOf(i, d.wid) # {} => (d.resp = "2xx" /\ lastTriggered[d.wid] # 0)
            /\ d.resp \in {"non2xx", "transport"} => UpdatesOf(i, d.wid) = {}
            /\ (d.st = "done" /\ d.resp = "2xx" /\ d.upd # "fail")
                  => UpdatesOf(i, d.wid) # {}

\* one request got a non-2xx response and left last_triggered alone, another
\* of the same invocation got a 2xx response and updated it
C2_Witness ==
    \E i \in EventInvs : \E k, m \in DOMAIN inv[i].deliv :
        /\ inv[i].deliv[k].st = "done" /\ inv[i].deliv[k].resp = "non2xx"
        /\ lastTriggered[inv[i].deliv[k].wid] = 0
        /\ inv[i].deliv[m].st = "done" /\ inv[i].deliv[m].resp = "2xx"
        /\ lastTriggered[inv[i].deliv[m].wid] # 0

\* C3: triggerEventWebhooks has returned only if every delivery it launched
\* is settled, also when a sibling failed.
C3_ReturnsAfterAllSettled ==
    \A i \in EventInvs :
        inv[i].pc = "returned" =>
            \A k \in DOMAIN inv[i].deliv :
                inv[i].deliv[k].st = "done" /\ inv[i].deliv[k].p # "pending"

\* an invocation returned after a transport failure of one request and the
\* success of another
C3_Witness ==
    \E i \in EventInvs : \E k, m \in DOMAIN inv[i].deliv :
        /\ inv[i].pc = "returned"
        /\ inv[i].deliv[k].resp = "transport" /\ ~inv[i].deliv[k].value
        /\ inv[i].deliv[m].upd = "ok" /\ inv[i].deliv[m].value

\* C4: when the answer of any request of an invocation has been handled,
\* every row of the invocation has been launched: its request is issued or
\* its executeWebhook has already returned false.
C4_AllLaunchedBeforeAnyAnswer ==
    \A i \in Dispatching :
        (\E k \in DOMAIN inv[i].deliv : inv[i].deliv[k].resp # "none") =>
            \A k \in DOMAIN inv[i].deliv :
                /\ inv[i].deliv[k].st # "new"
                /\ (CallsOf(i, k) # {} \/ inv[i].deliv[k].st = "done")

\* one request is answered while the request of a sibling is still in flight
C4_Witness ==
    \E i \in Dispatching : \E k, m \in DOMAIN inv[i].deliv :
        /\ inv[i].deliv[k].resp # "none"
        /\ inv[i].deliv[m].st = "http" /\ CallsOf(i, m) # {}

\* C5: a request executeWebhook issues to a row whose url holds the
\* chat-webhook marker has the parsed payload of the row as its body and
\* exactly Content-Type: application/json as its headers.
C5_ChatPayloadVerbatim ==
    \A c \in calls :
        (c.inv \in ExecuteInvs /\ ChatRow(Webhooks[c.wid])) =>
            /\ c.req.data = ParseColumn(Webhooks[c.wid].payload)
            /\ c.req.headers = Obj1(ContentTypeKey, Str(ApplicationJson))

\* a request went to the chat row, whose payload holds {{userName}} and whose
\* headers hold X-Token, with userName in the event data
C5_Witness ==
    \E c \in calls :
        /\ inv[c.inv].op = "event" /\ ChatRow(Webhooks[c.wid])
        /\ K_userName \in DOMAIN inv[c.inv].enriched.o
        /\ K_XToken \in DOMAIN ParseColumn(Webhooks[c.wid].headers).o
        /\ c.req.data.o[K_user] = Str(T_userName)

\* the row is delivered on the generic path with the payload
\* {"user":"{{data.userName}}"}
UserTemplateRow(w) ==
    /\ ~ChatRow(w)
    /\ w.trigger_type = "event"
    /\ w.event_type = PlaybackStarted
    /\ ParseColumn(w.payload) = Obj1(K_user, Str(T_dataUserName))

\* C6 as stated: publishing playback_started with data {userName:"alice"}
\* delivers the body {"user":"alice"} to the row whose payload is
\* {"user":"{{data.userName}}"}.
C6_Original ==
    \A c \in calls :
        (/\ UserTemplateRow(Webhooks[c.wid])
         /\ inv[c.inv].eventType = PlaybackStarted
         /\ inv[c.inv].data = Obj1(K_userName, Str(S_alice)))
            => c.req.data = Obj1(K_user, Str(S_alice))

\* C6 amended: with data {userName:"alice"} the body delivered is
\* {"user":"{{data.userName}}"}, the placeholder left as written since a path
\* is walked from the root of the event data; the body is {"user":"alice"}
\* when the data published is {data:{userName:"alice"}}.
C6_PathFromDataRoot ==
    \A c \in calls :
        (UserTemplateRow(Webhooks[c.wid]) /\ inv[c.inv].eventType = PlaybackStarted) =>
            /\ inv[c.inv].data = Obj1(K_userName, Str(S_alice))
                  => c.req.data = Obj1(K_user, Str(T_dataUserName))
            /\ inv[c.inv].data = Obj1(K_data, Obj1(K_userName, Str(S_alice)))
                  => c.req.data = Obj1(K_user, Str(S_alice))

\* playback_started was published with {userName:"alice"} and the request
\* to the row went out
C6_Witness ==
    \E c \in calls :
        /\ UserTemplateRow(Webhooks[c.wid])
        /\ inv[c.inv].eventType = PlaybackStarted
        /\ inv[c.inv].data = Obj1(K_userName, Str(S_alice))

\* the invocations of triggerEventWebhooks whose registry query answered no
\* row
NoRowInvs ==
    {i \in EventInvs : /\ inv[i].pc = "returned"
                       /\ inv[i].failed = {}
                       /\ Len(inv[i].rows) = 0}

\* C7: when the registry answers no row, triggerEventWebhooks returns
\* without reporting a failure (its value is not false), and the invocation
\* issues no request and executes no UPDATE.
C7_NoWebhooksNoOp ==
    \A i \in NoRowInvs :
        /\ inv[i].result \notin {RetFalse, RetPending}
        /\ inv[i].deliv = <<>>
        /\ {c \in calls : c.inv = i} = {}
        /\ {u \in updates : u.inv = i} = {}

\* media_recently_added, for which the table holds no row, was published
\* and its invocation returned
C7_Witness ==
    \E i \in NoRowInvs : inv[i].eventType = MediaRecentlyAdded

\* C8: with a registry answer of at least one row triggerEventWebhooks
\* returns true whatever the deliveries returned; it returns false only when
\* the registry query failed.
C8_TrueWhateverDeliveries ==
    \A i \in EventInvs :
        inv[i].pc = "returned" =>
            /\ (inv[i].failed = {} /\ Len(inv[i].rows) > 0) => inv[i].result = RetTrue
            /\ inv[i].result = RetFalse => "registry" \in inv[i].failed

\* an invocation returned true although each of its three deliveries
\* returned false
C8_Witness ==
    \E i \in EventInvs :
        /\ inv[i].pc = "returned" /\ inv[i].result = RetTrue
        /\ Len(inv[i].deliv) = 3
        /\ \A k \in DOMAIN inv[i].deliv : ~inv[i].deliv[k].value

\* C9: every request issued went to a row that was enabled when the lookup
\* of its invocation, by event type or by id, was answered.
C9_EnabledAtResolution ==
    \A c \in calls :
        inv[c.inv].op \in {"event", "summary"} => inv[c.inv].seen[c.wid]

\* a request is out to a row that has been disabled since the lookup
C9_Witness ==
    \E c \in calls :
        /\ inv[c.inv].op \in {"event", "summary"}
        /\ inv[c.inv].seen[c.wid] /\ ~enabled[c.wid]

\* C10 as stated: when the UPDATE of last_triggered fails after the request
\* completed, executeWebhook still returns true.
C10_Original ==
    \A i \in ExecuteInvs : \A k \in DOMAIN inv[i].deliv :
        inv[i].deliv[k].upd = "fail" => inv[i].deliv[k].value = TRUE

\* C10 amended: when the UPDATE of last_triggered fails after the request
\* completed, the error is caught inside executeWebhook, which returns false
\* although the request was delivered; nothing is thrown to
\* triggerEventWebhooks, which still returns true.
C10_UpdateFailureCaught ==
    \A i \in ExecuteInvs : \A k \in DOMAIN inv[i].deliv :
        LET d == inv[i].deliv[k]
        IN  d.upd = "fail" =>
              /\ d.resp = "2xx"
              /\ d.st = "done" /\ d.p = "fulfilled" /\ d.value = FALSE
              /\ UpdatesOf(i, d.wid) = {}
              /\ (inv[i].op = "event" /\ inv[i].pc = "returned") => inv[i].result = RetTrue

\* an invocation returned after the UPDATE of one of its deliveries failed
C10_Witness ==
    \E i \in EventInvs : \E k \in DOMAIN inv[i].deliv :
        /\ inv[i].pc = "returned"
        /\ inv[i].deliv[k].upd = "fail"

\* C11: when the registry query of an invocation of triggerEventWebhooks
\* fails, the invocation returns false (its promise is fulfilled, nothing is
\* thrown to the caller), launches no delivery, issues no request and
\* executes no UPDATE.
C11_RegistryFailureReturnsFalse ==
    \A i \in EventInvs :
        "registry" \in inv[i].failed =>
            /\ inv[i].pc = "returned"
            /\ inv[i].result = RetFalse
            /\ inv[i].deliv = <<>>
            /\ {c \in calls : c.inv = i} = {}
            /\ {u \in updates : u.inv = i} = {}

\* the registry query failed for playback_started, an event for which the
\* table holds enabled rows
C11_Witness ==
    \E i \in EventInvs :
        /\ "registry" \in inv[i].failed
        /\ inv[i].eventType = PlaybackStarted
        /\ \E w \in WebhookIds : /\ enabled[w]
                                 /\ Webhooks[w].trigger_type = "event"
                                 /\ Webhooks[w].event_type = PlaybackStarted

\* C12: the step in which emitEvent returns to the producer completes no
\* delivery: it issues no request and executes no UPDATE, and every
\* triggerEventWebhooks it started is left awaiting its registry query, with
\* no delivery launched and no result; the publication is over whether or
\* not the deliveries it leads to ever complete.
C12_PublishDoesNotWait ==
    [][Len(emits') > Len(emits) =>
          /\ calls' = calls
          /\ updates' = updates
          /\ \A i \in emits'[Len(emits')].started :
                /\ inv'[i].pc = "query"
                /\ inv'[i].result = RetPending
                /\ inv'[i].deliv = <<>>]_vars

\* emitEvent has returned and a request of the dispatch it started is still
\* in flight, while another has already been answered
C12_Witness ==
    \E e \in DOMAIN emits : \E i \in emits[e].started :
        \E k, m \in DOMAIN inv[i].deliv :
            /\ inv[i].pc = "join"
            /\ inv[i].deliv[k].st = "http" /\ CallsOf(i, k) # {}
            /\ inv[i].deliv[m].st = "done" /\ inv[i].deliv[m].resp # "none"

\* compileTemplate has returned
Compiled == pure.pc \in {"compiled", "recompiled"}

RECURSIVE PathValue(_, _)
\* the value the data holds at a path of keys, Undefined when a key is
\* missing or the value met is no mapping
PathValue(v, path) ==
    IF path = <<>> THEN v
    ELSE IF v.t = "obj" /\ Head(path) \in DOMAIN v.o
    THEN PathValue(v.o[Head(path)], Tail(path))
    ELSE Undefined

\* the text expected in place of a piece
ExpectedPiece(p, data) ==
    IF p.k = "lit" THEN p.s
    ELSE IF PathValue(data, p.path) = Undefined THEN PieceText(p)
    ELSE StringOf(PathValue(data, p.path))

RECURSIVE Expected(_, _)
Expected(pieces, data) ==
    IF pieces = <<>> THEN <<>>
    ELSE ExpectedPiece(Head(pieces), data) \o Expected(Tail(pieces), data)

\* C13: for every template text and data tree, compileTemplate returns the
\* text in which each placeholder whose path leads to a value is replaced
\* by the text of that value and each other placeholder is left as
\* written, placeholder by placeholder against the same data, the literal
\* text being kept.
C13_Original ==
    (Compiled /\ pure.text) => pure.out = Str(Expected(pure.pieces, pure.data))

RECURSIVE StringsIn(_)
\* the string values a data tree holds, at any depth
StringsIn(v) ==
    CASE v.t = "str" -> {v}
      [] v.t = "obj" -> UNION {StringsIn(v.o[k]) : k \in DOMAIN v.o}
      [] v.t = "arr" -> UNION {StringsIn(v.a[j]) : j \in DOMAIN v.a}
      [] OTHER -> {}

\* no value of the data tree has a brace in its textual form: the texts of
\* numbers, booleans, null and mappings have none, that of a sequence is
\* made of the texts of its elements
BraceFree(data) ==
    \A x \in StringsIn(data) : \A j \in DOMAIN x.s : x.s[j] \notin {"{", "}"}

\* the data tree { userName: "{{event}}", event: "hi" }
PlaceholderValued == Obj2(K_userName, Str(T_event), K_event, Str(S_hi))

\* the data tree { userName: "{{", event: "hi" }
BraceValued == Obj2(K_userName, Str(<<"{", "{">>), K_event, Str(S_hi))


RECURSIVE SameShape(_, _)
\* o has the structure of t: a mapping for a mapping, with the same keys, a
\* sequence for a sequence, with the same length, a string for a string, and
\* the same value for any other leaf
SameShape(t, o) ==
    CASE t.t = "obj" -> /\ o.t = "obj"
                        /\ DOMAIN o.o = DOMAIN t.o
                        /\ \A k \in DOMAIN t.o : SameShape(t.o[k], o.o[k])
      [] t.t = "arr" -> /\ o.t = "arr"
                        /\ Len(o.a) = Len(t.a)
                        /\ \A j \in DOMAIN t.a : SameShape(t.a[j], o.a[j])
      [] t.t = "str" -> o.t = "str"
      [] OTHER -> o = t

\* C15: for every structured template, of nested mappings and sequences,
\* compileTemplate returns a value of the same structure, in which only the
\* string leaves may differ.
C15_Original == (Compiled /\ ~pure.text) => SameShape(pure.template, pure.out)

\* C16: getScheduledWebhooks returns each row that is enabled and whose
\* trigger_type is scheduled, once, and no other row, whatever the enabled
\* column holds for the scheduled rows and for the event rows.
C16_ScheduledExactly ==
    pure.pc = "rows" =>
        /\ {pure.rows[j] : j \in DOMAIN pure.rows}
              = {w \in WebhookIds : /\ pure.at[w]
                                    /\ Webhooks[w].trigger_type = "scheduled"}
        /\ \A j, k \in DOMAIN pure.rows : pure.rows[j] = pure.rows[k] => j = k

\* the query answered row 4 alone from a table that also holds a disabled
\* scheduled row, an enabled event row and a disabled event row
C16_Witness ==
    /\ pure.pc = "rows"
    /\ pure.rows = <<4>>
    /\ ~pure.at[6]
    /\ pure.at[1]
    /\ ~pure.at[2]

\* C17: every request that follows the publication of an event name went to
\* a row whose trigger_type is event and whose event_type is the name
\* published, and every delivery launched is for such a row; a scheduled row
\* and a row of another event name get none.
C17_OnlyRowsOfTheEvent ==
    /\ \A i \in EventInvs :
          /\ inv[i].emit # 0 =>
                /\ inv[i].emit \in DOMAIN emits
                /\ emits[inv[i].emit].name = inv[i].eventType
          /\ \A k \in DOMAIN inv[i].deliv :
                /\ Webhooks[inv[i].deliv[k].wid].trigger_type = "event"
                /\ Webhooks[inv[i].deliv[k].wid].event_type = inv[i].eventType
    /\ \A c \in calls :
          (inv[c.inv].op = "event" /\ inv[c.inv].emit # 0) =>
              /\ Webhooks[c.wid].trigger_type = "event"
              /\ Webhooks[c.wid].event_type = emits[inv[c.inv].emit].name

\* playback_ended was published and its dispatch returned: row 5 got a
\* request, the enabled rows of playback_started and the scheduled rows got
\* none
C17_Witness ==
    \E i \in EventInvs :
        /\ inv[i].pc = "returned"
        /\ inv[i].emit # 0
        /\ emits[inv[i].emit].name = PlaybackEnded
        /\ \E c \in calls : c.inv = i /\ c.wid = 5
        /\ enabled[1] /\ enabled[2] /\ enabled[4]
        /\ \A c \in calls : c.inv = i => c.wid = 5

\* the invocations of triggerMonthlySummaryWebhook
SummaryInvs == {i \in DOMAIN inv : inv[i].op = "summary"}

\* the fields of section j of the payload of request c
SectionFields(c, j) == c.req.data.o[K_embeds].a[j].o[K_fields].a

\* the fields are the single "No data" entry
IsNoData(fields) ==
    /\ Len(fields) = 1
    /\ fields[1].o[K_name] = Str(S_NoData)

\* C18: the payload of every request of triggerMonthlySummaryWebhook holds
\* three sections in the order movies, series, statistics; the movies and
\* the series section hold one entry per row of their list, or exactly one
\* "No data" entry when the list is empty, and the statistics section holds
\* its three entries, so no section has an empty field list.
C18_ThreeSectionsNeverEmpty ==
    \A c \in calls :
        c.inv \in SummaryInvs =>
            LET e == c.req.data.o[K_embeds].a
                r == inv[c.inv]
            IN  /\ Len(e) = 3
                /\ e[1].o[K_title] = Str(S_MoviesTitle)
                /\ e[2].o[K_title] = Str(S_SeriesTitle)
                /\ e[3].o[K_title] = Str(S_StatsTitle)
                /\ \A j \in 1..3 : Len(SectionFields(c, j)) >= 1
                /\ IF r.topMovies = <<>> THEN IsNoData(SectionFields(c, 1))
                   ELSE /\ Len(SectionFields(c, 1)) = Len(r.topMovies)
                        /\ ~IsNoData(SectionFields(c, 1))
                /\ IF r.topSeries = <<>> THEN IsNoData(SectionFields(c, 2))
                   ELSE /\ Len(SectionFields(c, 2)) = Len(r.topSeries)
                        /\ ~IsNoData(SectionFields(c, 2))
                /\ Len(SectionFields(c, 3)) = 3

\* a report went out with no movie and no series watched
C18_Witness ==
    \E c \in calls :
        /\ c.inv \in SummaryInvs
        /\ inv[c.inv].failed = {}
        /\ inv[c.inv].topMovies = <<>>
        /\ inv[c.inv].topSeries = <<>>

\* the invocations of triggerMonthlySummaryWebhook whose lookup was answered
\* for an id the table does not hold or holds disabled
AbsentInvs ==
    {i \in SummaryInvs :
        /\ inv[i].pc # "query"
        /\ "lookup" \notin inv[i].failed
        /\ (inv[i].webhookId \notin WebhookIds \/ ~inv[i].seen[inv[i].webhookId])}

\* C19: when the id given to triggerMonthlySummaryWebhook names no row or a
\* disabled row, the invocation returns false at once: it issues no query of
\* the digest, no request and no UPDATE.
C19_AbsentReportsFailure ==
    \A i \in AbsentInvs :
        /\ inv[i].pc = "returned"
        /\ inv[i].result = RetFalse
        /\ inv[i].asked = {}
        /\ inv[i].deliv = <<>>
        /\ {c \in calls : c.inv = i} = {}
        /\ {u \in updates : u.inv = i} = {}

\* the report was asked for row 2 after the row had been disabled
C19_Witness ==
    \E i \in AbsentInvs :
        /\ inv[i].webhookId = 2
        /\ inv[i].pc = "returned"

\* C20: an invocation of triggerMonthlySummaryWebhook one of whose digest
\* queries failed (top movies, top series or statistics) issues no request
\* and returns false.
C20_Original ==
    \A i \in SummaryInvs :
        inv[i].failed \cap {"movies", "series", "stats"} # {} =>
            /\ {c \in calls : c.inv = i} = {}
            /\ inv[i].pc = "returned" => inv[i].result = RetFalse

\* the invocations of triggerEventWebhooks one of whose requests failed
\* without a response (an exception of the transport, or the timeout)
TransportHit ==
    {i \in Dispatching : \E k \in DOMAIN inv[i].deliv : inv[i].deliv[k].resp = "transport"}

\* C21: in an invocation one of whose requests failed without a response,
\* no sibling is cancelled or held back: a sibling whose request is issued
\* and unanswered is still awaiting its answer, a sibling whose request got
\* a 2xx answer goes on to its UPDATE, and once that UPDATE is done the
\* sibling has returned true and last_triggered of its row is recorded,
\* whether its answer came before or after the failure.
C21_TransportFailureIsolated ==
    \A i \in TransportHit : \A k \in DOMAIN inv[i].deliv :
        LET d == inv[i].deliv[k]
        IN  /\ (d.tries = 1 /\ d.resp = "none") => (d.st = "http" /\ d.p = "pending")
            /\ d.resp = "2xx" => d.st \in {"update", "done"}
            /\ (d.resp = "2xx" /\ d.upd = "ok") =>
                  /\ d.st = "done" /\ d.p = "fulfilled" /\ d.value = TRUE
                  /\ UpdatesOf(i, d.wid) # {}
                  /\ lastTriggered[d.wid] # 0

\* a request failed without a response while a sibling was still awaiting
\* its answer, and the sibling then got a 2xx answer, returned true and had
\* last_triggered recorded after the failure
C21_Witness ==
    \E i \in TransportHit : \E k, m \in DOMAIN inv[i].deliv :
        /\ inv[i].deliv[k].resp = "transport"
        /\ inv[i].deliv[k].st = "done"
        /\ k # m
        /\ inv[i].deliv[m].resp = "2xx"
        /\ inv[i].deliv[m].value = TRUE
        /\ UpdatesOf(i, inv[i].deliv[m].wid) # {}
        /\ lastTriggered[inv[i].deliv[m].wid] # 0

\* C22: a row whose headers text or payload text is not JSON, on the chat
\* path as on the generic path, has its executeWebhook return false without
\* a call of axios, and no UPDATE of last_triggered is executed for it.
C22_ParseFailureStopsDelivery ==
    \A i \in ExecuteInvs : \A k \in DOMAIN inv[i].deliv :
        Malformed(Webhooks[inv[i].rows[k]]) =>
            LET d == inv[i].deliv[k]
            IN  /\ d.st = "done" /\ d.p = "fulfilled" /\ d.value = FALSE
                /\ d.tries = 0 /\ d.resp = "none" /\ d.upd = "none"
                /\ CallsOf(i, k) = {}
                /\ UpdatesOf(i, d.wid) = {}
                /\ lastTriggered[d.wid] = 0

\* the invocation for playback_ended has returned: its chat row, whose
\* headers text is not JSON, returned false while its sibling was delivered
C22_Witness ==
    \E i \in Dispatching : \E k, m \in DOMAIN inv[i].rows :
        /\ inv[i].pc = "returned"
        /\ ChatRow(Webhooks[inv[i].rows[k]])
        /\ Malformed(Webhooks[inv[i].rows[k]])
        /\ inv[i].deliv[k].value = FALSE
        /\ inv[i].deliv[m].value = TRUE

\* the requests invocation i issued for webhook wid
CallsFor(i, wid) == {c \in calls : c.inv = i /\ c.wid = wid}

\* every delivery is pending or has settled on one outcome, has called
\* axios at most once, and its cycle has issued at most one request for its
\* webhook
OneCallPerCycle ==
    \A i \in DOMAIN inv :
        /\ \A k \in DOMAIN inv[i].deliv :
              LET d == inv[i].deliv[k]
              IN  /\ d.tries <= 1
                  /\ d.st = "done" <=> d.p = "fulfilled"
                  /\ d.st # "done" => (d.p = "pending" /\ d.value = FALSE)
                  /\ d.value = TRUE => (d.resp = "2xx" /\ d.upd = "ok")
        /\ \A w \in WebhookIds : Cardinality(CallsFor(i, w)) <= 1

\* a delivery that has returned stays as it is, and so does an invocation
\* that has returned
SettledIsFinal ==
    \A i \in DOMAIN inv :
        /\ inv[i].pc = "returned" => inv'[i] = inv[i]
        /\ \A k \in DOMAIN inv[i].deliv :
              inv[i].deliv[k].st = "done" => inv'[i].deliv[k] = inv[i].deliv[k]

\* C23: whatever the interleaving of the dispatch cycles of an event, each
\* delivery goes from pending to exactly one of delivered (true) and failed
\* (false) and then never changes; no delivery calls axios a second time,
\* and each cycle issues at most one request per webhook.
C23_DeliveredOrFailedOnce == [](OneCallPerCycle) /\ [][SettledIsFinal]_vars

\* two cycles of playback_ended have returned, each having issued its one
\* request for row 5: the request of one was delivered, that of the other
\* failed
C23_Witness ==
    \E i, j \in EventInvs :
        /\ i # j
        /\ inv[i].pc = "returned" /\ inv[j].pc = "returned"
        /\ Cardinality(CallsFor(i, 5)) = 1 /\ Cardinality(CallsFor(j, 5)) = 1
        /\ \E k \in DOMAIN inv[i].deliv : inv[i].deliv[k].value = TRUE
        /\ \E k \in DOMAIN inv[j].deliv :
              inv[j].deliv[k].wid = 5 /\ inv[j].deliv[k].st = "done"
                  /\ inv[j].deliv[k].value = FALSE

\* C24 as stated: executeWebhook returns true whenever the request got a
\* response, of any status, and false only when the request failed without
\* a response or was never issued (the deliveries whose UPDATE itself
\* failed are left aside).
C24_Original ==
    \A i \in ExecuteInvs : \A k \in DOMAIN inv[i].deliv :
        LET d == inv[i].deliv[k]
        IN  (d.st = "done" /\ d.upd # "fail") =>
              (d.value = TRUE <=> d.resp \in {"2xx", "non2xx"})

\* C24 amended: a non-2xx response is a failed delivery. executeWebhook
\* returns true exactly when the request got a 2xx response and the UPDATE
\* succeeded; on a non-2xx response, as on a failure without a response, it
\* returns false without executing the UPDATE.
C24_TrueOnlyOn2xx ==
    \A i \in ExecuteInvs : \A k \in DOMAIN inv[i].deliv :
        LET d == inv[i].deliv[k]
        IN  /\ d.st = "done" => (d.value = TRUE <=> (d.resp = "2xx" /\ d.upd = "ok"))
            /\ d.resp \in {"non2xx", "transport"} =>
                  /\ d.st = "done" /\ d.p = "fulfilled" /\ d.value = FALSE
                  /\ d.upd = "none"

\* a request got a non-2xx response and its executeWebhook returned false
C24_Witness ==
    \E i \in EventInvs : \E k \in DOMAIN inv[i].deliv :
        /\ inv[i].deliv[k].resp = "non2xx"
        /\ inv[i].deliv[k].st = "done"
        /\ inv[i].deliv[k].value = FALSE
        /\ CallsOf(i, k) # {}

\* C25: for every template text and data tree, compileTemplate returns
\* without a TypeError, each placeholder whose path meets a missing key,
\* null or a scalar being left as written and every other piece compiled
\* (compared piece by piece on the texts whose literal pieces open no
\* brace, which the regular expression reads as they were assembled).
C25_Original ==
    (Compiled /\ pure.text) =>
        /\ pure.out # Thrown
        /\ (\A j \in DOMAIN pure.pieces :
                pure.pieces[j].k = "lit" =>
                    \A c \in DOMAIN pure.pieces[j].s : pure.pieces[j].s[c] # "{")
              => pure.out = Str(Expected(pure.pieces, pure.data))

\* the non-string scalars of a template
ScalarTemplates == {t \in StructuredTemplates : t.t \in {"num", "bool", "null"}}

\* C26: a template that is a number, a boolean or null comes back as it is,
\* and a mapping whose values are such scalars comes back with the same
\* values, in both cases without a TypeError.
C26_Original ==
    (Compiled /\ ~pure.text) =>
        /\ pure.template \in ScalarTemplates => pure.out = pure.template
        /\ (/\ pure.template.t = "obj"
            /\ \A k \in DOMAIN pure.template.o : pure.template.o[k] \in ScalarTemplates)
              => pure.out = pure.template

\* C27: no failure of a dispatch reaches the publisher. Whether the registry
\* query fails, a payload is not JSON, a template raises a TypeError or a
\* request fails, no promise of executeWebhook rejects and the promise of
\* the handler, which is that of its triggerEventWebhooks, never rejects:
\* it is pending or has resolved to true, false or undefined; and every
\* publication has returned to its caller with its handlers started.
C27_NoFailureReachesPublisher ==
    /\ \A i \in EventInvs :
          /\ inv[i].result \in {RetPending, RetTrue, RetFalse, RetUndefined}
          /\ inv[i].pc = "returned" <=> inv[i].result # RetPending
          /\ \A k \in DOMAIN inv[i].deliv : inv[i].deliv[k].p # "rejected"
          /\ "registry" \in inv[i].failed => inv[i].result = RetFalse
    /\ \A e \in DOMAIN emits :
          \A i \in emits[e].started : i \in EventInvs /\ inv[i].emit = e

\* a publication of playback_started whose dispatch has returned after a
\* row with a payload that is not JSON, a row whose template raised a
\* TypeError and a row whose request failed without a response
C27_Witness ==
    \E e \in DOMAIN emits : \E i \in emits[e].started :
        /\ inv[i].pc = "returned"
        /\ inv[i].result = RetTrue
        /\ \E k \in DOMAIN inv[i].rows : Malformed(Webhooks[inv[i].rows[k]])
        /\ \E k \in DOMAIN inv[i].rows :
              /\ ~Malformed(Webhooks[inv[i].rows[k]])
              /\ ~Compiles(i, Webhooks[inv[i].rows[k]])
              /\ inv[i].deliv[k].value = FALSE
        /\ \E k \in DOMAIN inv[i].rows : inv[i].deliv[k].resp = "transport"

\* C28: however many times the manager has been constructed, one emitter
\* has been created and it holds exactly one handler for each known event
\* and none for any other name; so each publication of a known event has
\* started exactly one invocation of triggerEventWebhooks, for that event,
\* and each publication of an unknown name has started none.
C28_OneBusOneHandler ==
    /\ instance <=> pure.n > 0
    /\ instance =>
          /\ pure.buses = 1
          /\ \A e \in EventNames : listeners[e] = IF e \in KnownEvents THEN 1 ELSE 0
    /\ \A e \in DOMAIN emits :
          /\ Cardinality(emits[e].started) = IF emits[e].name \in KnownEvents THEN 1 ELSE 0
          /\ \A i \in emits[e].started :
                inv[i].op = "event" /\ inv[i].eventType = emits[e].name
    /\ Len(inv) = Cardinality({e \in DOMAIN emits : emits[e].name \in KnownEvents})

\* the manager was constructed three times and a publication of
\* playback_started has started one invocation, which has returned after a
\* delivery was recorded
C28_Witness ==
    /\ pure.n = 3
    /\ \E e \in DOMAIN emits :
          /\ emits[e].name = PlaybackStarted
          /\ Cardinality(emits[e].started) = 1
          /\ \A i \in emits[e].started :
                inv[i].pc = "returned" /\ \E u \in updates : u.inv = i

\* the rows whose last_triggered the step changes
Stamped == {w \in WebhookIds : lastTriggered'[w] # lastTriggered[w]}

\* the step belongs to a dispatch: an invocation starts or advances
DispatchStep == inv' # inv

\* the deliveries whose UPDATE the step completes with success
JustRecorded ==
    {d \in UNION {{inv[i].deliv[k] : k \in DOMAIN inv[i].deliv} : i \in DOMAIN inv} :
        /\ d.st = "update"
        /\ \E i \in DOMAIN inv : \E k \in DOMAIN inv[i].deliv :
              /\ inv[i].deliv[k] = d
              /\ inv'[i].deliv[k].upd = "ok"}

\* C29: a step of triggerEventWebhooks, executeWebhook or
\* triggerMonthlySummaryWebhook leaves the enabled column of every row as it
\* is, and changes last_triggered only when it completes the UPDATE of a
\* delivery whose request was answered, and then on the row of that
\* delivery alone, set to the instant of the UPDATE; no other step changes
\* last_triggered (the other columns of the table are never written by the
\* class and are constants here).
C29_OnlyLastTriggeredOfDelivered ==
    [][ /\ DispatchStep => enabled' = enabled
        /\ Stamped # {} =>
              /\ DispatchStep
              /\ \E d \in JustRecorded :
                    /\ d.resp = "2xx"
                    /\ Stamped = {d.wid}
                    /\ lastTriggered'[d.wid] = clock ]_vars

\* the UPDATE of the delivery to row 1 has stamped that row while the
\* sibling rows 2 and 3 of the same invocation are unstamped
C29_Witness ==
    \E i \in EventInvs :
        /\ UpdatesOf(i, 1) # {}
        /\ lastTriggered[1] # 0
        /\ {2, 3} \subseteq {inv[i].rows[k] : k \in DOMAIN inv[i].rows}
        /\ lastTriggered[2] = 0 /\ lastTriggered[3] = 0
        /\ \A w \in WebhookIds \ {1} : lastTriggered[w] = 0

\* C30: every request of triggerMonthlySummaryWebhook goes to a row whose
\* trigger_type is scheduled: an invocation given the id of an enabled row
\* whose trigger_type is event issues no request and records no delivery.
C30_Original ==
    \A i \in SummaryInvs :
        /\ \A c \in calls : c.inv = i => Webhooks[c.wid].trigger_type = "scheduled"
        /\ \A u \in updates : u.inv = i => Webhooks[u.wid].trigger_type = "scheduled"

\* the three queries of the digest have been issued
PeriodAsked == pure.pc = "asked"

\* the previous calendar month of a date: its first and its last day
PreviousMonth(today) ==
    LET y == IF today.m = 0 THEN today.y - 1 ELSE today.y
        m == IF today.m = 0 THEN 11 ELSE today.m - 1
    IN  [first |-> [y |-> y, m |-> m, d |-> 1],
         last |-> [y |-> y, m |-> m, d |-> DaysIn(y, m)]]

\* the text of a calendar day, year-month-day
DayText(date) ==
    Decimal(date.y) \o <<"-">> \o Pad2(date.m + 1) \o <<"-">> \o Pad2(date.d)

\* C31: on every current date, the top-movies query, the top-series query
\* and the statistics query are each restricted to the window that runs
\* from the first to the last day of the calendar month before the date
\* the query was computed on, so that three queries computed on one day
\* are restricted to the same window.
C31_Original ==
    PeriodAsked =>
        \A q \in DOMAIN pure.queries :
            LET month == PreviousMonth(pure.queries[q].on)
            IN  /\ pure.queries[q].from = DayText(month.first)
                /\ pure.queries[q].bounded
                /\ pure.queries[q].to = DayText(month.last)

\* invocation i of triggerEventWebhooks has started
Started(i) == i \in DOMAIN inv /\ inv[i].op = "event"

\* invocation i has returned and every delivery it launched has settled
\* on true or false
Finished(i) ==
    /\ i \in DOMAIN inv
    /\ inv[i].pc = "returned"
    /\ \A k \in DOMAIN inv[i].deliv :
          inv[i].deliv[k].st = "done" /\ inv[i].deliv[k].p = "fulfilled"

\* C32: when every registry query, every request issued and every UPDATE
\* is answered, every invocation of triggerEventWebhooks that has started
\* eventually returns, with every delivery it launched delivered or failed,
\* and stays so: no delivery is pending forever.
C32_EveryDispatchReturns ==
    \A i \in 1..(MaxCalls + 1) : Started(i) ~> [](Finished(i))

\* two overlapping invocations have both returned, each with two
\* deliveries settled, one of them after a request that reached its timeout
\* or failed in transport
C32_Witness ==
    /\ \A i \in 1..(MaxCalls + 1) : Started(i) /\ Finished(i)
    /\ \A i \in DOMAIN inv : Len(inv[i].deliv) = 2
    /\ \E i \in DOMAIN inv : \E k \in DOMAIN inv[i].deliv :
          inv[i].deliv[k].resp = "transport"
    /\ \E i \in DOMAIN inv : \E k \in DOMAIN inv[i].deliv :
          inv[i].deliv[k].value = TRUE
=============================================================================
